---------------------------- MODULE Spec2Model ----------------------------
(***************************************************************************)
(* A model of sup-to-srt: the PGS wire decoder (pgs/src/wire.rs,           *)
(* pgs/src/lib.rs) and the subtitle extraction state machine               *)
(* (src/main.rs, subtitles_extract).                                       *)
(*                                                                         *)
(* A byte stream is a sequence of numbers 0..255.  A reader is a buffer    *)
(* and a 0-based position.  Every fallible function returns a result       *)
(* record: Ok(val, pos) or Err(kind) with kind "UnexpectedEof" or          *)
(* "InvalidData", the two std::io::ErrorKind values the code produces.     *)
(* Option<T> is a sequence of length 0 (None) or 1 (Some).                 *)
(***************************************************************************)
EXTENDS Integers, Sequences, FiniteSets, TLC

(***************************************************************************)
(* Constants of pgs/src/wire.rs.                                           *)
(***************************************************************************)
MAGIC_NUMBER == 20551
SEGMENT_TYPE_PDS == 20
SEGMENT_TYPE_ODS == 21
SEGMENT_TYPE_PCS == 22
SEGMENT_TYPE_WDS == 23
SEGMENT_TYPE_END == 128
FRAME_RATE == 16
COMPOSITION_STATE_NORMAL == 0
COMPOSITION_STATE_ACQUISITION_POINT == 64
COMPOSITION_STATE_EPOCH_START == 128
PALETTE_UPDATE_FLAG_FALSE == 0
PALETTE_UPDATE_FLAG_TRUE == 128
OBJECT_CROPPED_FLAG_OFF == 0
OBJECT_CROPPED_FLAG_FORCE == 64
LAST_IN_SEQUENCE_FLAG_LAST_IN_SEQ == 64
LAST_IN_SEQUENCE_FLAG_FIRST_IN_SEQ == 128
LAST_IN_SEQUENCE_FLAG_FIRST_AND_LAST_IN_SEQ == 192

(***************************************************************************)
(* Results and options.                                                    *)
(***************************************************************************)
Ok(v, p) == [ok |-> TRUE, val |-> v, pos |-> p, err |-> "none"]
Err(e) == [ok |-> FALSE, val |-> <<>>, pos |-> 0, err |-> e]
None == <<>>
Some(v) == <<v>>

(***************************************************************************)
(* wire.rs read_u8 .. read_u32: big-endian integers at a position of the   *)
(* buffer.  read_exact fails with UnexpectedEof when fewer bytes remain    *)
(* than asked for (Remaining).                                             *)
(***************************************************************************)
Remaining(buf, pos) == Len(buf) - pos
read_u8(buf, pos) == buf[pos + 1]
read_u16(buf, pos) == buf[pos + 1] * 256 + buf[pos + 2]
read_u24(buf, pos) == (buf[pos + 1] * 256 + buf[pos + 2]) * 256 + buf[pos + 3]
read_u32(buf, pos) ==
    ((buf[pos + 1] * 256 + buf[pos + 2]) * 256 + buf[pos + 3]) * 256 + buf[pos + 4]
Slice(buf, from, n) == [i \in 1..n |-> buf[from + i]]

(***************************************************************************)
(* impl Wire for SegmentHeader: 2+4+4+1+2 = 13 bytes.                      *)
(***************************************************************************)
SegmentHeader_read(buf, pos) ==
    IF Remaining(buf, pos) < 13 THEN Err("UnexpectedEof")
    ELSE Ok([magic_number |-> read_u16(buf, pos),
             pts |-> read_u32(buf, pos + 2),
             dts |-> read_u32(buf, pos + 6),
             segment_type |-> read_u8(buf, pos + 10),
             segment_size |-> read_u16(buf, pos + 11)], pos + 13)

\* impl From<wire::SegmentHeader> for Header
HeaderFrom(h) == [pts |-> h.pts, dts |-> h.dts]

(***************************************************************************)
(* impl Wire for SegmentPCS: 11 bytes.                                     *)
(***************************************************************************)
SegmentPCS_read(buf, pos) ==
    IF Remaining(buf, pos) < 11 THEN Err("UnexpectedEof")
    ELSE Ok([width |-> read_u16(buf, pos),
             height |-> read_u16(buf, pos + 2),
             framerate |-> read_u8(buf, pos + 4),
             composition_number |-> read_u16(buf, pos + 5),
             composition_state |-> read_u8(buf, pos + 7),
             palette_update_flag |-> read_u8(buf, pos + 8),
             palette_id |-> read_u8(buf, pos + 9),
             number_of_composition_objects |-> read_u8(buf, pos + 10)], pos + 11)

(***************************************************************************)
(* impl Wire for CompositionObject: 8 bytes, and 8 more (the cropping      *)
(* rectangle) exactly when the cropped flag is OBJECT_CROPPED_FLAG_FORCE;  *)
(* the cropping fields keep their default 0 otherwise.                     *)
(***************************************************************************)
CompositionObject_read(buf, pos) ==
    IF Remaining(buf, pos) < 8 THEN Err("UnexpectedEof")
    ELSE LET flag == read_u8(buf, pos + 3)
             cropped == flag = OBJECT_CROPPED_FLAG_FORCE
         IN  IF cropped /\ Remaining(buf, pos) < 16 THEN Err("UnexpectedEof")
             ELSE Ok([object_id |-> read_u16(buf, pos),
                      window_id |-> read_u8(buf, pos + 2),
                      object_cropped_flag |-> flag,
                      object_horizontal_position |-> read_u16(buf, pos + 4),
                      object_vertical_position |-> read_u16(buf, pos + 6),
                      object_cropping_horizontal_position |->
                          IF cropped THEN read_u16(buf, pos + 8) ELSE 0,
                      object_cropping_vertical_position |->
                          IF cropped THEN read_u16(buf, pos + 10) ELSE 0,
                      object_cropping_width |->
                          IF cropped THEN read_u16(buf, pos + 12) ELSE 0,
                      object_cropping_height |->
                          IF cropped THEN read_u16(buf, pos + 14) ELSE 0],
                     IF cropped THEN pos + 16 ELSE pos + 8)

\* impl Wire for SegmentWDS: 1 byte.
SegmentWDS_read(buf, pos) ==
    IF Remaining(buf, pos) < 1 THEN Err("UnexpectedEof")
    ELSE Ok([number_of_windows |-> read_u8(buf, pos)], pos + 1)

\* impl Wire for Window: 9 bytes.
Window_read(buf, pos) ==
    IF Remaining(buf, pos) < 9 THEN Err("UnexpectedEof")
    ELSE Ok([window_id |-> read_u8(buf, pos),
             window_horizontal_position |-> read_u16(buf, pos + 1),
             window_vertical_position |-> read_u16(buf, pos + 3),
             window_width |-> read_u16(buf, pos + 5),
             window_height |-> read_u16(buf, pos + 7)], pos + 9)

\* impl Wire for SegmentPDS: 2 bytes.
SegmentPDS_read(buf, pos) ==
    IF Remaining(buf, pos) < 2 THEN Err("UnexpectedEof")
    ELSE Ok([palette_id |-> read_u8(buf, pos),
             palette_version |-> read_u8(buf, pos + 1)], pos + 2)

\* impl Wire for PaletteEntry: 5 bytes.
PaletteEntry_read(buf, pos) ==
    IF Remaining(buf, pos) < 5 THEN Err("UnexpectedEof")
    ELSE Ok([palette_entry_id |-> read_u8(buf, pos),
             luminance |-> read_u8(buf, pos + 1),
             color_diff_red |-> read_u8(buf, pos + 2),
             color_diff_blue |-> read_u8(buf, pos + 3),
             transparency |-> read_u8(buf, pos + 4)], pos + 5)

\* impl Wire for SegmentODS: 2+1+1+3+2+2 = 11 bytes.
SegmentODS_read(buf, pos) ==
    IF Remaining(buf, pos) < 11 THEN Err("UnexpectedEof")
    ELSE Ok([object_id |-> read_u16(buf, pos),
             object_version |-> read_u8(buf, pos + 2),
             last_in_sequence_flag |-> read_u8(buf, pos + 3),
             object_data_length |-> read_u24(buf, pos + 4),
             width |-> read_u16(buf, pos + 7),
             height |-> read_u16(buf, pos + 9)], pos + 11)

(***************************************************************************)
(* lib.rs decode_segment, the PCS arm's loop over the composition objects  *)
(* (lines 204-228): read one, map its cropped flag, push.  r is the result *)
(* of the read.                                                            *)
(***************************************************************************)
RECURSIVE decode_composition_objects(_, _, _, _)
decode_composition_objects(buf, pos, n, objects) ==
    LET cropping(object) ==
            IF object.object_cropped_flag = OBJECT_CROPPED_FLAG_OFF THEN None
            ELSE Some([width |-> object.object_cropping_width,
                       height |-> object.object_cropping_height,
                       horizontal_position |->
                           object.object_cropping_horizontal_position,
                       vertical_position |->
                           object.object_cropping_vertical_position])
        push(r) ==
            IF ~r.ok THEN r
            ELSE IF r.val.object_cropped_flag
                       \notin {OBJECT_CROPPED_FLAG_OFF, OBJECT_CROPPED_FLAG_FORCE}
                 THEN Err("InvalidData")
            ELSE decode_composition_objects(buf, r.pos, n - 1,
                   Append(objects,
                     [object_id |-> r.val.object_id,
                      window_id |-> r.val.window_id,
                      horizontal_position |-> r.val.object_horizontal_position,
                      vertical_position |-> r.val.object_vertical_position,
                      cropping |-> cropping(r.val)]))
    IN  IF n = 0 THEN Ok(objects, pos)
        ELSE push(CompositionObject_read(buf, pos))

\* The PCS arm with every byte that is no other composition state read as
\* Normal.
decode_pcs_any_state(header, buf) ==
    LET segment(pcs, objs) ==
            IF ~objs.ok THEN objs
            ELSE IF pcs.palette_update_flag
                      \notin {PALETTE_UPDATE_FLAG_TRUE, PALETTE_UPDATE_FLAG_FALSE}
                 THEN Err("InvalidData")
            ELSE Ok([type |-> "PCS",
                     header |-> HeaderFrom(header),
                     width |-> pcs.width,
                     height |-> pcs.height,
                     composition_number |-> pcs.composition_number,
                     composition_state |->
                        IF pcs.composition_state = COMPOSITION_STATE_EPOCH_START
                        THEN "EpochStart"
                        ELSE IF pcs.composition_state
                                  = COMPOSITION_STATE_ACQUISITION_POINT
                        THEN "AcquisitionPoint"
                        ELSE "Normal",
                     palette_update |->
                        pcs.palette_update_flag = PALETTE_UPDATE_FLAG_TRUE,
                     palette_id |-> pcs.palette_id,
                     composition_objects |-> objs.val], objs.pos)
        read(r) ==
            IF ~r.ok THEN r
            ELSE segment(r.val,
                         decode_composition_objects(
                             buf, r.pos, r.val.number_of_composition_objects, <<>>))
    IN  read(SegmentPCS_read(buf, 0))

\* lib.rs decode_segment, the PCS arm (lines 200-263).  pcs is the fixed part
\* of the payload, objs the result of the loop over the composition objects.
decode_pcs(header, buf) ==
    LET segment(pcs, objs) ==
            IF ~objs.ok THEN objs
            ELSE IF pcs.palette_update_flag
                      \notin {PALETTE_UPDATE_FLAG_TRUE, PALETTE_UPDATE_FLAG_FALSE}
                 THEN Err("InvalidData")
            ELSE IF pcs.composition_state
                      \notin {COMPOSITION_STATE_EPOCH_START,
                              COMPOSITION_STATE_ACQUISITION_POINT,
                              COMPOSITION_STATE_NORMAL}
                 THEN Err("InvalidData")
            ELSE Ok([type |-> "PCS",
                     header |-> HeaderFrom(header),
                     width |-> pcs.width,
                     height |-> pcs.height,
                     composition_number |-> pcs.composition_number,
                     composition_state |->
                        IF pcs.composition_state = COMPOSITION_STATE_EPOCH_START
                        THEN "EpochStart"
                        ELSE IF pcs.composition_state
                                  = COMPOSITION_STATE_ACQUISITION_POINT
                        THEN "AcquisitionPoint"
                        ELSE "Normal",
                     palette_update |->
                        pcs.palette_update_flag = PALETTE_UPDATE_FLAG_TRUE,
                     palette_id |-> pcs.palette_id,
                     composition_objects |-> objs.val], objs.pos)
        read(r) ==
            IF ~r.ok THEN r
            ELSE segment(r.val,
                         decode_composition_objects(
                             buf, r.pos, r.val.number_of_composition_objects, <<>>))
    IN  read(SegmentPCS_read(buf, 0))

\* lib.rs decode_segment, the WDS arm's loop over the windows (lines 267-276).
RECURSIVE decode_windows(_, _, _, _)
decode_windows(buf, pos, n, windows) ==
    LET push(r) ==
            IF ~r.ok THEN r
            ELSE decode_windows(buf, r.pos, n - 1,
                   Append(windows,
                     [window_id |-> r.val.window_id,
                      width |-> r.val.window_width,
                      height |-> r.val.window_height,
                      horizontal_position |-> r.val.window_horizontal_position,
                      vertical_position |-> r.val.window_vertical_position]))
    IN  IF n = 0 THEN Ok(windows, pos)
        ELSE push(Window_read(buf, pos))

\* lib.rs decode_segment, the WDS arm (lines 264-281).
decode_wds(header, buf) ==
    LET segment(wnds) ==
            IF ~wnds.ok THEN wnds
            ELSE Ok([type |-> "WDS", header |-> HeaderFrom(header),
                     windows |-> wnds.val], wnds.pos)
        read(r) ==
            IF ~r.ok THEN r
            ELSE segment(decode_windows(buf, r.pos, r.val.number_of_windows, <<>>))
    IN  read(SegmentWDS_read(buf, 0))

(***************************************************************************)
(* lib.rs PaletteEntry and PDS.entries.  The code holds [PaletteEntry;     *)
(* 256], zeroed and then written at the ids the payload lists.  The model  *)
(* holds the written entries as a function on the ids written, and         *)
(* EntryAt reads the array: the written entry, or the zero entry.          *)
(***************************************************************************)
ZeroEntry ==
    [entry_id |-> 0, luminance |-> 0, color_diff_red |-> 0,
     color_diff_blue |-> 0, transparency |-> 0]
EntryAt(entries, idx) ==
    IF idx \in DOMAIN entries THEN entries[idx] ELSE ZeroEntry
SetEntry(entries, idx, e) ==
    [i \in (DOMAIN entries) \cup {idx} |-> IF i = idx THEN e ELSE entries[i]]
NoEntries == [i \in {} |-> ZeroEntry]

\* lib.rs decode_segment, the PDS arm's loop (lines 285-294): entries are read
\* while the cursor is before the end of the payload.
RECURSIVE decode_palette_entries(_, _, _)
decode_palette_entries(buf, pos, entries) ==
    LET store(r) ==
            IF ~r.ok THEN r
            ELSE decode_palette_entries(buf, r.pos,
                   SetEntry(entries, r.val.palette_entry_id,
                     [entry_id |-> r.val.palette_entry_id,
                      luminance |-> r.val.luminance,
                      color_diff_red |-> r.val.color_diff_red,
                      color_diff_blue |-> r.val.color_diff_blue,
                      transparency |-> r.val.transparency]))
    IN  IF ~(pos < Len(buf)) THEN Ok(entries, pos)
        ELSE store(PaletteEntry_read(buf, pos))

\* lib.rs decode_segment, the PDS arm (lines 282-301).
decode_pds(header, buf) ==
    LET segment(pds, es) ==
            IF ~es.ok THEN es
            ELSE Ok([type |-> "PDS", header |-> HeaderFrom(header),
                     palette_id |-> pds.palette_id,
                     palette_version |-> pds.palette_version,
                     entries |-> es.val], es.pos)
        read(r) ==
            IF ~r.ok THEN r
            ELSE segment(r.val, decode_palette_entries(buf, r.pos, NoEntries))
    IN  read(SegmentPDS_read(buf, 0))

\* u32::saturating_sub
saturating_sub(a, b) == IF a >= b THEN a - b ELSE 0

\* lib.rs decode_segment, the ODS arm (lines 302-347): the data, of
\* object_data_length - 4 bytes, is read before the flag is looked at.
decode_ods(header, buf) ==
    LET segment(ods, pos, n) ==
            IF Remaining(buf, pos) < n THEN Err("UnexpectedEof")
            ELSE IF ods.last_in_sequence_flag
                      \notin {LAST_IN_SEQUENCE_FLAG_FIRST_IN_SEQ,
                              LAST_IN_SEQUENCE_FLAG_LAST_IN_SEQ,
                              LAST_IN_SEQUENCE_FLAG_FIRST_AND_LAST_IN_SEQ}
                 THEN Err("InvalidData")
            ELSE Ok([type |-> "ODS", header |-> HeaderFrom(header),
                     object_id |-> ods.object_id,
                     object_version |-> ods.object_version,
                     last_in_sequence |->
                        IF ods.last_in_sequence_flag
                             = LAST_IN_SEQUENCE_FLAG_FIRST_IN_SEQ
                        THEN "First"
                        ELSE IF ods.last_in_sequence_flag
                                  = LAST_IN_SEQUENCE_FLAG_LAST_IN_SEQ
                        THEN "Last"
                        ELSE "FirstAndLast",
                     width |-> ods.width,
                     height |-> ods.height,
                     data |-> Slice(buf, pos, n)], pos + n)
        read(r) ==
            IF ~r.ok THEN r
            ELSE segment(r.val, r.pos, saturating_sub(r.val.object_data_length, 4))
    IN  read(SegmentODS_read(buf, 0))

(***************************************************************************)
(* lib.rs decode_segment (lines 183-358).  The header, the magic, the      *)
(* payload of segment_size bytes, then the typed body read from a cursor   *)
(* over the payload alone.  On success the reader stands after the         *)
(* payload, whatever the body parser used of it.                           *)
(***************************************************************************)
\* decode_segment with the reader left where the typed body parser stopped.
decode_segment_body_end(buf, pos) ==
    LET match(header, buffer) ==
            IF header.segment_type = SEGMENT_TYPE_PCS THEN decode_pcs(header, buffer)
            ELSE IF header.segment_type = SEGMENT_TYPE_WDS THEN decode_wds(header, buffer)
            ELSE IF header.segment_type = SEGMENT_TYPE_PDS THEN decode_pds(header, buffer)
            ELSE IF header.segment_type = SEGMENT_TYPE_ODS THEN decode_ods(header, buffer)
            ELSE IF header.segment_type = SEGMENT_TYPE_END
                 THEN Ok([type |-> "END", header |-> HeaderFrom(header)], 0)
            ELSE Err("InvalidData")
        finish(body, after) == IF ~body.ok THEN body ELSE Ok(body.val, after + body.pos)
        read(h) ==
            IF ~h.ok THEN h
            ELSE IF h.val.magic_number # MAGIC_NUMBER THEN Err("InvalidData")
            ELSE IF Remaining(buf, h.pos) < h.val.segment_size
                 THEN Err("UnexpectedEof")
            ELSE finish(match(h.val, Slice(buf, h.pos, h.val.segment_size)), h.pos)
    IN  read(SegmentHeader_read(buf, pos))

decode_segment(buf, pos) ==
    LET match(header, buffer) ==
            IF header.segment_type = SEGMENT_TYPE_PCS THEN decode_pcs(header, buffer)
            ELSE IF header.segment_type = SEGMENT_TYPE_WDS THEN decode_wds(header, buffer)
            ELSE IF header.segment_type = SEGMENT_TYPE_PDS THEN decode_pds(header, buffer)
            ELSE IF header.segment_type = SEGMENT_TYPE_ODS THEN decode_ods(header, buffer)
            ELSE IF header.segment_type = SEGMENT_TYPE_END
                 THEN Ok([type |-> "END", header |-> HeaderFrom(header)], 0)
            ELSE Err("InvalidData")
        finish(body, after) == IF ~body.ok THEN body ELSE Ok(body.val, after)
        read(h) ==
            IF ~h.ok THEN h
            ELSE IF h.val.magic_number # MAGIC_NUMBER THEN Err("InvalidData")
            ELSE IF Remaining(buf, h.pos) < h.val.segment_size
                 THEN Err("UnexpectedEof")
            ELSE finish(match(h.val, Slice(buf, h.pos, h.val.segment_size)),
                        h.pos + h.val.segment_size)
    IN  read(SegmentHeader_read(buf, pos))

(***************************************************************************)
(* lib.rs decode_display_set (lines 360-397): the first segment must be a  *)
(* PCS; then segments are collected by kind until an END; a second PCS is  *)
(* an error.  Every error of decode_segment is passed on (the ? operator). *)
(***************************************************************************)
RECURSIVE decode_display_set_loop(_, _, _, _, _, _)
\* The loop with a PCS in the middle of a set skipped instead of refused.
decode_display_set_loop_second_pcs(buf, pos, pcs, vwds, vpds, vods) ==
    LET match(r) ==
            IF ~r.ok THEN r
            ELSE IF r.val.type = "END"
                 THEN Ok([pcs |-> pcs, wds |-> vwds, pds |-> vpds, ods |-> vods,
                          end |-> r.val], r.pos)
            ELSE decode_display_set_loop(buf, r.pos, pcs,
                    IF r.val.type = "WDS" THEN Append(vwds, r.val) ELSE vwds,
                    IF r.val.type = "PDS" THEN Append(vpds, r.val) ELSE vpds,
                    IF r.val.type = "ODS" THEN Append(vods, r.val) ELSE vods)
    IN  match(decode_segment(buf, pos))

decode_display_set_loop(buf, pos, pcs, vwds, vpds, vods) ==
    LET match(r) ==
            IF ~r.ok THEN r
            ELSE IF r.val.type = "PCS" THEN Err("InvalidData")
            ELSE IF r.val.type = "END"
                 THEN Ok([pcs |-> pcs, wds |-> vwds, pds |-> vpds, ods |-> vods,
                          end |-> r.val], r.pos)
            ELSE decode_display_set_loop(buf, r.pos, pcs,
                    IF r.val.type = "WDS" THEN Append(vwds, r.val) ELSE vwds,
                    IF r.val.type = "PDS" THEN Append(vpds, r.val) ELSE vpds,
                    IF r.val.type = "ODS" THEN Append(vods, r.val) ELSE vods)
    IN  match(decode_segment(buf, pos))

\* decode_display_set with any kind of segment taken as the first of a set.
decode_display_set_first_any(buf, pos) ==
    LET first(r) ==
            IF ~r.ok THEN r
            ELSE decode_display_set_loop(buf, r.pos, r.val, <<>>, <<>>, <<>>)
    IN  first(decode_segment(buf, pos))

decode_display_set(buf, pos) ==
    LET first(r) ==
            IF ~r.ok THEN r
            ELSE IF r.val.type # "PCS" THEN Err("InvalidData")
            ELSE decode_display_set_loop(buf, r.pos, r.val, <<>>, <<>>, <<>>)
    IN  first(decode_segment(buf, pos))

(***************************************************************************)
(* lib.rs clock_to_duration (lines 430-436).  A Duration is whole seconds  *)
(* and nanoseconds below one second, as std::time::Duration holds it.      *)
(***************************************************************************)
Duration(secs, nanos) == [secs |-> secs, nanos |-> nanos]
DurationZero == Duration(0, 0)
DurationLeq(a, b) == a.secs < b.secs \/ (a.secs = b.secs /\ a.nanos <= b.nanos)

\* The nanoseconds of a tick rounded up instead of down.
clock_to_duration_rounded_up(timestamp) ==
    LET seconds == timestamp \div 90000
        remain == timestamp % 90000
        nanos_per_tick == (1000000000 + 89999) \div 90000
        nanos == remain * nanos_per_tick
    IN  Duration(seconds, nanos)

clock_to_duration(timestamp) ==
    LET seconds == timestamp \div 90000
        remain == timestamp % 90000
        nanos_per_tick == 1000000000 \div 90000
        nanos == remain * nanos_per_tick
    IN  Duration(seconds, nanos)

(***************************************************************************)
(* wire.rs decode_image_data_code (lines 144-227), on the slice of buf     *)
(* that starts at offset.  val is <<code, n>>: the code and its length.    *)
(***************************************************************************)
Color(color, count) == [kind |-> "Color", color |-> color, count |-> count]
EndOfLine == [kind |-> "EndOfLine", color |-> 0, count |-> 0]

\* The code of top bits 01 with the run length as written, one not taken off.
decode_image_data_code_no_quirk(buf, offset) ==
    LET len == Len(buf) - offset
        v0 == buf[offset + 1]
        v1 == buf[offset + 2]
        v2 == buf[offset + 3]
        v3 == buf[offset + 4]
        top == v1 \div 64
        low == v1 % 64
    IN  IF len = 0 THEN Err("UnexpectedEof")
        ELSE IF v0 > 0 THEN Ok(Color(v0, 1), 1)
        ELSE IF len < 2 THEN Err("InvalidData")
        ELSE IF v1 >= 1 /\ v1 <= 63 THEN Ok(Color(0, v1), 2)
        ELSE IF v1 = 0 THEN Ok(EndOfLine, 2)
        ELSE IF len < 3 THEN Err("InvalidData")
        ELSE IF top = 1 THEN Ok(Color(0, low * 256 + v2), 3)
        ELSE IF top = 2 THEN Ok(Color(v2, low), 3)
        ELSE IF len < 4 THEN Err("InvalidData")
        ELSE IF top = 3 THEN Ok(Color(v3, low * 256 + v2), 4)
        ELSE Err("InvalidData")

decode_image_data_code(buf, offset) ==
    LET len == Len(buf) - offset
        v0 == buf[offset + 1]
        v1 == buf[offset + 2]
        v2 == buf[offset + 3]
        v3 == buf[offset + 4]
        top == v1 \div 64
        low == v1 % 64
    IN  IF len = 0 THEN Err("UnexpectedEof")
        ELSE IF v0 > 0 THEN Ok(Color(v0, 1), 1)
        ELSE IF len < 2 THEN Err("InvalidData")
        ELSE IF v1 >= 1 /\ v1 <= 63 THEN Ok(Color(0, v1), 2)
        ELSE IF v1 = 0 THEN Ok(EndOfLine, 2)
        ELSE IF len < 3 THEN Err("InvalidData")
        ELSE IF top = 1 THEN Ok(Color(0, saturating_sub(low * 256 + v2, 1)), 3)
        ELSE IF top = 2 THEN Ok(Color(v2, low), 3)
        ELSE IF len < 4 THEN Err("InvalidData")
        ELSE IF top = 3 THEN Ok(Color(v3, low * 256 + v2), 4)
        ELSE Err("InvalidData")

\* std::iter::repeat_n(color, count)
repeat_n(color, count) == [i \in 1..count |-> color]

(***************************************************************************)
(* lib.rs decode_rle_data (lines 440-456) over wire.rs ImageDataDecoder    *)
(* (lines 128-142): codes are decoded from offset 0 until the offset is    *)
(* the length of the data; the first failing code ends the decoding with   *)
(* its error; the pixel count is compared with width * height at the end.  *)
(***************************************************************************)
RECURSIVE decode_rle_loop(_, _, _)
decode_rle_loop(data, offset, pixels) ==
    LET extend(r) ==
            IF ~r.ok THEN r
            ELSE decode_rle_loop(data, offset + r.pos,
                   IF r.val.kind = "Color"
                   THEN pixels \o repeat_n(r.val.color, r.val.count)
                   ELSE pixels)
    IN  IF offset = Len(data) THEN Ok(pixels, offset)
        ELSE extend(decode_image_data_code(data, offset))

\* The pixels returned whatever their number.
decode_rle_data_unchecked(data, width, height) ==
    LET check(r) == IF ~r.ok THEN r ELSE Ok(r.val, 0)
    IN  check(decode_rle_loop(data, 0, <<>>))

decode_rle_data(data, width, height) ==
    LET expected_pixel_count == width * height
        check(r) ==
            IF ~r.ok THEN r
            ELSE IF Len(r.val) # expected_pixel_count THEN Err("InvalidData")
            ELSE Ok(r.val, 0)
    IN  check(decode_rle_loop(data, 0, <<>>))

(***************************************************************************)
(* lib.rs ycbcr_to_rgb (lines 411-427).  The code computes in f64, clamps  *)
(* to [0, 255] and truncates; the model computes the same value in         *)
(* thousandths (millionths for green) and divides after the clamp.         *)
(***************************************************************************)
ClampToU8(num, den) ==
    IF num <= 0 THEN 0 ELSE IF num >= 255 * den THEN 255 ELSE num \div den

ycbcr_to_rgb(luminance, cr, cb) ==
    <<ClampToU8(1000 * luminance + 1402 * (cr - 128), 1000),
      ClampToU8(1000000 * luminance - 344136 * (cb - 128) - 714136 * (cr - 128),
                1000000),
      ClampToU8(1000 * luminance + 1772 * (cb - 128), 1000)>>

\* lib.rs PaletteEntry::to_rgba (lines 87-94)
to_rgba(e) ==
    IF e.transparency = 0 THEN <<0, 0, 0, 0>>
    ELSE ycbcr_to_rgb(e.luminance, e.color_diff_red, e.color_diff_blue)
            \o <<e.transparency>>

(***************************************************************************)
(* main.rs Bitmap (lines 44-50) and bitmap_from_object_and_palette (lines  *)
(* 131-144): four bytes, RGBA, per decoded palette index.                  *)
(***************************************************************************)
Bitmap(width, height, pixels) == [width |-> width, height |-> height, pixels |-> pixels]
BitmapDefault == Bitmap(0, 0, <<>>)

RECURSIVE pixels_from_indexed(_, _, _, _)
pixels_from_indexed(pixels_indexed, i, palette, pixels) ==
    IF i > Len(pixels_indexed) THEN pixels
    ELSE pixels_from_indexed(pixels_indexed, i + 1, palette,
            pixels \o to_rgba(EntryAt(palette.entries, pixels_indexed[i])))

bitmap_from_object_and_palette(object, palette) ==
    LET bitmap(r) ==
            IF ~r.ok THEN Err("decoding ODS rle data")
            ELSE Ok(Bitmap(object.width, object.height,
                           pixels_from_indexed(r.val, 1, palette, <<>>)), 0)
    IN  bitmap(decode_rle_data(object.data, object.width, object.height))

(***************************************************************************)
(* main.rs Bitmap::sub_image (lines 53-68).  Rows top_left_y up to          *)
(* min(top_left_y + height, self.height); of each row the byte range       *)
(* begin_offset .. end_offset of the pixel buffer.  A range that ends      *)
(* after the buffer is an out-of-range slice: the code panics.             *)
(***************************************************************************)
Min(a, b) == IF a <= b THEN a ELSE b

RECURSIVE sub_image_rows(_, _, _, _, _, _)
sub_image_rows(self, y, y_end, top_left_x, width, output_pixels) ==
    LET begin_offset == (y * self.width * 4) + top_left_x * 4
        end_offset == begin_offset + width * 4
    IN  IF y >= y_end THEN Ok(output_pixels, 0)
        ELSE IF end_offset > Len(self.pixels) THEN Err("panic")
        ELSE sub_image_rows(self, y + 1, y_end, top_left_x, width,
               output_pixels \o Slice(self.pixels, begin_offset,
                                      end_offset - begin_offset))

sub_image(self, top_left_x, top_left_y, width, height) ==
    LET image(r) == IF ~r.ok THEN r ELSE Ok(Bitmap(width, height, r.val), 0)
    IN  image(sub_image_rows(self, top_left_y,
                             Min(top_left_y + height, self.height),
                             top_left_x, width, <<>>))

(***************************************************************************)
(* The state of one run of main.rs subtitles_extract(pgs).                 *)
(***************************************************************************)
VARIABLES
    input,              \* what the byte stream was built from (not program state)
    pgs,                \* the argument: the bytes of the stream
    pc,                 \* where the run stands
    reader_pos,         \* position of the Cursor read by decode_display_sets
    display_sets,       \* the Vec<DisplaySet> decoded so far / returned
    ds_idx,             \* 1-based index of the display set the for loop is at
    ods_idx,            \* 1-based index into ds.ods
    comp_idx,           \* 1-based index into ds.pcs.composition_objects
    display_width,
    display_height,
    current_epoch,
    objects,            \* HashMap<u16, Object>
    palettes,           \* HashMap<u8, pgs::PDS>
    subtitles,          \* Vec<BitmapSubtitle>
    previous_subtitles, \* Vec<usize>: 0-based indices into subtitles
    current_time,
    decode_result,      \* what decode_display_sets returned: "running", "Ok", "InvalidData"
    result,             \* what subtitles_extract returned
    opened_by,          \* history: for each record of subtitles, the 1-based index
                        \* of the display set that pushed it (not program state)
    call,               \* a call of a function of the pgs crate, or of
                        \* subtitles_to_srt: its name, arguments and return value
    available_parallelism, \* what std::thread::available_parallelism gives, or 4
    ocr_pc,             \* where the thread that runs subtitles_ocr stands
    ocr_in,             \* the channel of BitmapSubtitle: what was sent, not yet received
    ocr_out,            \* the channel of TextSubtitle: what was sent, not yet received
    handles,            \* the scoped worker threads: where each stands, what it holds
    text_subtitles,     \* Vec<TextSubtitle>
    view_pc,            \* where a run of subtitles_viewer stands
    curr_image,         \* the selected index of subtitles_viewer
    window_buffer,      \* what the window was last updated with
    decoder,            \* an ImageDataDecoder: its buf and offset
    yielded             \* history: what the calls of its next returned

vars == <<input, pgs, pc, reader_pos, display_sets, ds_idx, ods_idx, comp_idx,
          display_width, display_height, current_epoch, objects, palettes,
          subtitles, previous_subtitles, current_time, decode_result, result,
          opened_by, call, available_parallelism, ocr_pc, ocr_in, ocr_out,
          handles, text_subtitles, view_pc, curr_image, window_buffer,
          decoder, yielded>>

NoResult == [kind |-> "none", subtitles |-> <<>>, msg |-> ""]
ResultOk(subs) == [kind |-> "Ok", subtitles |-> subs, msg |-> ""]
ResultErr(msg) == [kind |-> "Err", subtitles |-> <<>>, msg |-> msg]
ResultPanic(msg) == [kind |-> "Panic", subtitles |-> <<>>, msg |-> msg]

EmptyObjects == [id \in {} |-> 0]
EmptyPalettes == [id \in {} |-> 0]

\* main.rs TimeRange::new, BitmapSubtitle
TimeRange(begin, end) == [begin |-> begin, end |-> end]
BitmapSubtitle(range, bitmap) == [range |-> range, bitmap |-> bitmap]

\* HashMap::insert
MapInsert(map, k, v) == [x \in (DOMAIN map) \cup {k} |-> IF x = k THEN v ELSE map[x]]

\* The display set the for loop of subtitles_extract is at, and the palette
\* borrowed at lines 192-197.
ds == display_sets[ds_idx]
palette == palettes[ds.pcs.palette_id]

\* The state of a run of subtitles_ocr.
OcrVars == <<available_parallelism, ocr_pc, ocr_in, ocr_out, handles, text_subtitles>>

\* The state of a run of subtitles_viewer.
ViewVars == <<view_pc, curr_image, window_buffer>>

\* An iterator that pgs::wire::decode_image_data returned.
IterVars == <<decoder, yielded>>

\* What a run of subtitles_extract leaves alone.
NotExtract == <<call, OcrVars, ViewVars, IterVars>>

ExtractLocals ==
    <<display_width, display_height, current_epoch, objects, palettes,
      subtitles, previous_subtitles, current_time, opened_by>>
ExtractIndices == <<ds_idx, ods_idx, comp_idx>>

(***************************************************************************)
(* lib.rs decode_display_sets (lines 399-409), one turn of its loop: a     *)
(* decoded set is pushed; an error of kind UnexpectedEof ends the loop and *)
(* the sets decoded so far are returned; any other error is returned.      *)
(* main.rs line 146 turns the error into the error of subtitles_extract.   *)
(***************************************************************************)
\* The match with every error returned, the end of input included.
decode_display_sets_arm_strict(r) == IF r.ok THEN "push" ELSE "return"

decode_display_sets_arm(r) ==
    IF r.ok THEN "push"
    ELSE IF r.err = "UnexpectedEof" THEN "break"
    ELSE "return"

DecodeDisplaySets ==
    /\ pc = "decode"
    /\ \E r \in {decode_display_set(pgs, reader_pos)} :
           IF decode_display_sets_arm(r) = "push"
           THEN /\ display_sets' = Append(display_sets, r.val)
                /\ reader_pos' = r.pos
                /\ UNCHANGED <<pc, decode_result, result>>
           ELSE IF decode_display_sets_arm(r) = "break"
           THEN /\ decode_result' = "Ok"
                /\ pc' = "check"
                /\ UNCHANGED <<display_sets, reader_pos, result>>
           ELSE /\ decode_result' = r.err
                /\ result' = ResultErr("parsing pgs")
                /\ pc' = "done"
                /\ UNCHANGED <<display_sets, reader_pos>>
    /\ UNCHANGED <<NotExtract, input, pgs, ExtractIndices, ExtractLocals>>

(***************************************************************************)
(* main.rs lines 147-165: no display set, or a first display set that      *)
(* does not start an epoch; otherwise the locals of the loop.              *)
(***************************************************************************)
\* The checks without the one of the composition state of the first set.
CheckDisplaySets_any_state ==
    /\ pc = "check"
    /\ IF display_sets = <<>>
       THEN /\ result' = ResultOk(<<>>)
            /\ pc' = "done"
            /\ UNCHANGED <<ExtractIndices, ExtractLocals>>
       ELSE /\ display_width' = display_sets[1].pcs.width
            /\ display_height' = display_sets[1].pcs.height
            /\ current_epoch' = 0
            /\ objects' = EmptyObjects
            /\ palettes' = EmptyPalettes
            /\ subtitles' = <<>>
            /\ previous_subtitles' = <<>>
            /\ opened_by' = <<>>
            /\ ds_idx' = 1
            /\ pc' = "set"
            /\ UNCHANGED <<ods_idx, comp_idx, current_time, result>>
    /\ UNCHANGED <<NotExtract, input, pgs, reader_pos, display_sets, decode_result>>

CheckDisplaySets ==
    /\ pc = "check"
    /\ IF display_sets = <<>>
       THEN /\ result' = ResultOk(<<>>)
            /\ pc' = "done"
            /\ UNCHANGED <<ExtractIndices, ExtractLocals>>
       ELSE IF display_sets[1].pcs.composition_state # "EpochStart"
       THEN /\ result' = ResultErr("display set 0 does not start an epoch")
            /\ pc' = "done"
            /\ UNCHANGED <<ExtractIndices, ExtractLocals>>
       ELSE /\ display_width' = display_sets[1].pcs.width
            /\ display_height' = display_sets[1].pcs.height
            /\ current_epoch' = 0
            /\ objects' = EmptyObjects
            /\ palettes' = EmptyPalettes
            /\ subtitles' = <<>>
            /\ previous_subtitles' = <<>>
            /\ opened_by' = <<>>
            /\ ds_idx' = 1
            /\ pc' = "set"
            /\ UNCHANGED <<ods_idx, comp_idx, current_time, result>>
    /\ UNCHANGED <<NotExtract, input, pgs, reader_pos, display_sets, decode_result>>

\* The records of the previous display set left as they were opened.
patch_previous_skipped(subs, previous, time) == subs

\* main.rs lines 172-174: the end of every record opened by the previous
\* display set is patched.
RECURSIVE patch_previous(_, _, _)
patch_previous(subs, previous, time) ==
    IF previous = <<>> THEN subs
    ELSE patch_previous(
            [subs EXCEPT ![Head(previous) + 1].range.end = time],
            Tail(previous), time)

\* The loop of lines 187-190 left out: the table as it was before the set.
insert_palettes_none(map, pds) == map

\* The loop with the entries a PDS does not list taken from the palette the
\* table held under its id.
RECURSIVE insert_palettes_merged(_, _)
insert_palettes_merged(map, pds) ==
    LET id == Head(pds).palette_id
        merged == IF id \in DOMAIN map
                  THEN [Head(pds) EXCEPT !.entries = Head(pds).entries @@ map[id].entries]
                  ELSE Head(pds)
    IN  IF pds = <<>> THEN map
        ELSE insert_palettes_merged(MapInsert(map, id, merged), Tail(pds))

\* main.rs lines 187-190: every PDS of the set is inserted under its id.
RECURSIVE insert_palettes(_, _)
insert_palettes(map, pds) ==
    IF pds = <<>> THEN map
    ELSE insert_palettes(MapInsert(map, Head(pds).palette_id, Head(pds)), Tail(pds))

\* main.rs lines 176-185: the match on the composition state.  EpochStart
\* clears the object map and the palette map; the other states keep them.
\* The match without objects.clear().
objects_after_epoch_match_kept(pcs, map) == map

objects_after_epoch_match(pcs, map) ==
    IF pcs.composition_state = "EpochStart" THEN EmptyObjects ELSE map
\* The match with palettes.clear() in every arm.
palettes_after_epoch_match_cleared(pcs, map) == EmptyPalettes

palettes_after_epoch_match(pcs, map) ==
    IF pcs.composition_state = "EpochStart" THEN EmptyPalettes ELSE map

(***************************************************************************)
(* main.rs lines 167-197, the head of the loop body for one display set:   *)
(* the two assertions, the patch of the previous records, the epoch        *)
(* reset, the palettes of the set, the lookup of the PCS palette.          *)
(***************************************************************************)
BeginDisplaySet ==
    /\ pc = "set"
    /\ ds_idx <= Len(display_sets)
    /\ IF ds.pcs.width # display_width \/ ds.pcs.height # display_height
       THEN /\ result' = ResultPanic("assertion failed")
            /\ pc' = "done"
            /\ UNCHANGED <<ExtractIndices, ExtractLocals>>
       ELSE LET time == clock_to_duration(ds.pcs.header.pts)
                epoch_start == ds.pcs.composition_state = "EpochStart"
                pals == insert_palettes(
                            palettes_after_epoch_match(ds.pcs, palettes), ds.pds)
            IN  /\ current_time' = time
                /\ subtitles' = patch_previous(subtitles, previous_subtitles, time)
                /\ previous_subtitles' = <<>>
                /\ current_epoch' = IF epoch_start THEN current_epoch + 1
                                    ELSE current_epoch
                /\ objects' = objects_after_epoch_match(ds.pcs, objects)
                /\ palettes' = pals
                /\ UNCHANGED <<display_width, display_height, ds_idx, comp_idx,
                               opened_by>>
                /\ IF ds.pcs.palette_id \in DOMAIN pals
                   THEN /\ ods_idx' = 1
                        /\ pc' = "ods"
                        /\ UNCHANGED result
                   ELSE /\ result' = ResultErr("PCS referenced invalid palette")
                        /\ pc' = "done"
                        /\ UNCHANGED ods_idx
    /\ UNCHANGED <<NotExtract, input, pgs, reader_pos, display_sets, decode_result>>

\* main.rs lines 123-129 and 200-206: the Object of an id, inserted from the
\* ODS when the map has none.
Object(width, height, finished, data, bitmap) ==
    [width |-> width, height |-> height, finished |-> finished,
     data |-> data, bitmap |-> bitmap]
entry_or_insert(map, ods) ==
    IF ods.object_id \in DOMAIN map THEN map[ods.object_id]
    ELSE Object(ods.width, ods.height, FALSE, <<>>, BitmapDefault)

\* The ODS arms with a Last fragment that replaces the data of the object
\* instead of extending it.
apply_ods_replaces(map, pal, ods) ==
    LET finish(obj) ==
            LET store(bm) ==
                    IF ~bm.ok THEN bm
                    ELSE Ok(MapInsert(map, ods.object_id,
                                      [obj EXCEPT !.bitmap = bm.val]), 0)
            IN  store(bitmap_from_object_and_palette(obj, pal))
        match(obj) ==
            IF ods.last_in_sequence = "First"
            THEN Ok(MapInsert(map, ods.object_id,
                              [obj EXCEPT !.finished = FALSE, !.data = ods.data]), 0)
            ELSE IF ods.last_in_sequence = "Last" /\ obj.finished
            THEN Err("invalid ods segment")
            ELSE finish([obj EXCEPT !.finished = TRUE, !.data = ods.data])
    IN  match(entry_or_insert(map, ods))

\* The ODS arms with a Last fragment accepted by a finished object.
apply_ods_extends_finished(map, pal, ods) ==
    LET finish(obj) ==
            LET store(bm) ==
                    IF ~bm.ok THEN bm
                    ELSE Ok(MapInsert(map, ods.object_id,
                                      [obj EXCEPT !.bitmap = bm.val]), 0)
            IN  store(bitmap_from_object_and_palette(obj, pal))
        match(obj) ==
            IF ods.last_in_sequence = "FirstAndLast"
            THEN finish([obj EXCEPT !.finished = TRUE, !.data = ods.data])
            ELSE IF ods.last_in_sequence = "First"
            THEN Ok(MapInsert(map, ods.object_id,
                              [obj EXCEPT !.finished = FALSE, !.data = ods.data]), 0)
            ELSE finish([obj EXCEPT !.finished = TRUE,
                                    !.data = obj.data \o ods.data])
    IN  match(entry_or_insert(map, ods))

\* The ODS arms with a Last fragment refused when the map has no object of
\* its id.
apply_ods_needs_first(map, pal, ods) ==
    LET finish(obj) ==
            LET store(bm) ==
                    IF ~bm.ok THEN bm
                    ELSE Ok(MapInsert(map, ods.object_id,
                                      [obj EXCEPT !.bitmap = bm.val]), 0)
            IN  store(bitmap_from_object_and_palette(obj, pal))
        match(obj) ==
            IF ods.last_in_sequence = "FirstAndLast"
            THEN finish([obj EXCEPT !.finished = TRUE, !.data = ods.data])
            ELSE IF ods.last_in_sequence = "First"
            THEN Ok(MapInsert(map, ods.object_id,
                              [obj EXCEPT !.finished = FALSE, !.data = ods.data]), 0)
            ELSE IF obj.finished \/ ods.object_id \notin DOMAIN map
            THEN Err("invalid ods segment")
            ELSE finish([obj EXCEPT !.finished = TRUE,
                                    !.data = obj.data \o ods.data])
    IN  match(entry_or_insert(map, ods))

(***************************************************************************)
(* main.rs lines 199-232, one ODS: the effect on the object map, as a      *)
(* result whose val is the new map.                                        *)
(***************************************************************************)
apply_ods(map, pal, ods) ==
    LET \* lines 210-211 and 224-225: the object is finished and its bitmap is
        \* built from its data
        finish(obj) ==
            LET store(bm) ==
                    IF ~bm.ok THEN bm
                    ELSE Ok(MapInsert(map, ods.object_id,
                                      [obj EXCEPT !.bitmap = bm.val]), 0)
            IN  store(bitmap_from_object_and_palette(obj, pal))
        match(obj) ==
            IF ods.last_in_sequence = "FirstAndLast"
            THEN finish([obj EXCEPT !.finished = TRUE, !.data = ods.data])
            ELSE IF ods.last_in_sequence = "First"
            THEN Ok(MapInsert(map, ods.object_id,
                              [obj EXCEPT !.finished = FALSE, !.data = ods.data]), 0)
            ELSE IF obj.finished THEN Err("invalid ods segment")
            ELSE finish([obj EXCEPT !.finished = TRUE,
                                    !.data = obj.data \o ods.data])
    IN  match(entry_or_insert(map, ods))

ProcessOds ==
    /\ pc = "ods"
    /\ ods_idx <= Len(ds.ods)
    /\ \E r \in {apply_ods(objects, palette, ds.ods[ods_idx])} :
           IF r.ok
           THEN /\ objects' = r.val
                /\ ods_idx' = ods_idx + 1
                /\ UNCHANGED <<pc, result>>
           ELSE /\ result' = ResultErr(r.err)
                /\ pc' = "done"
                /\ UNCHANGED <<objects, ods_idx>>
    /\ UNCHANGED <<NotExtract, input, pgs, reader_pos, display_sets, decode_result, ds_idx,
                   comp_idx, display_width, display_height, current_epoch,
                   palettes, subtitles, previous_subtitles, current_time,
                   opened_by>>

\* main.rs line 199/234: the ODS loop is over, the composition loop begins.
EndOds ==
    /\ pc = "ods"
    /\ ods_idx > Len(ds.ods)
    /\ comp_idx' = 1
    /\ pc' = "comp"
    /\ UNCHANGED <<NotExtract, input, pgs, reader_pos, display_sets, decode_result, ds_idx,
                   ods_idx, ExtractLocals, result>>

\* The composition with an unfinished object shown as it is.
composition_bitmap_unfinished(map, comp) ==
    IF comp.object_id \notin DOMAIN map THEN Ok(None, 0)
    ELSE IF comp.cropping # None
    THEN LET cropping == comp.cropping[1]
             cropped(image) == IF ~image.ok THEN image ELSE Ok(Some(image.val), 0)
         IN  cropped(sub_image(map[comp.object_id].bitmap,
                               cropping.horizontal_position,
                               cropping.vertical_position,
                               cropping.width, cropping.height))
    ELSE Ok(Some(map[comp.object_id].bitmap), 0)

(***************************************************************************)
(* main.rs lines 234-271, one composition object: skipped when its object  *)
(* is missing or unfinished; otherwise a record with the (cropped) bitmap  *)
(* is pushed, open at current_time, and remembered in previous_subtitles.  *)
(***************************************************************************)
composition_bitmap(map, comp) ==
    IF comp.object_id \notin DOMAIN map THEN Ok(None, 0)
    ELSE IF ~map[comp.object_id].finished THEN Ok(None, 0)
    ELSE IF comp.cropping # None
    THEN LET cropping == comp.cropping[1]
             cropped(image) == IF ~image.ok THEN image ELSE Ok(Some(image.val), 0)
         IN  cropped(sub_image(map[comp.object_id].bitmap,
                               cropping.horizontal_position,
                               cropping.vertical_position,
                               cropping.width, cropping.height))
    ELSE Ok(Some(map[comp.object_id].bitmap), 0)

ProcessComposition ==
    /\ pc = "comp"
    /\ comp_idx <= Len(ds.pcs.composition_objects)
    /\ \E r \in {composition_bitmap(objects, ds.pcs.composition_objects[comp_idx])} :
           IF ~r.ok
           THEN /\ result' = ResultPanic("range end index out of range")
                /\ pc' = "done"
                /\ UNCHANGED <<comp_idx, subtitles, previous_subtitles, opened_by>>
           ELSE IF r.val = None
           THEN /\ comp_idx' = comp_idx + 1
                /\ UNCHANGED <<pc, result, subtitles, previous_subtitles, opened_by>>
           ELSE /\ previous_subtitles' = Append(previous_subtitles, Len(subtitles))
                /\ opened_by' = Append(opened_by, ds_idx)
                /\ subtitles' = Append(subtitles,
                        BitmapSubtitle(TimeRange(current_time, DurationZero), r.val[1]))
                /\ comp_idx' = comp_idx + 1
                /\ UNCHANGED <<pc, result>>
    /\ UNCHANGED <<NotExtract, input, pgs, reader_pos, display_sets, decode_result, ds_idx,
                   ods_idx, display_width, display_height, current_epoch,
                   objects, palettes, current_time>>

\* main.rs line 272: the loop body is over, the for loop moves on.
EndDisplaySet ==
    /\ pc = "comp"
    /\ comp_idx > Len(ds.pcs.composition_objects)
    /\ ds_idx' = ds_idx + 1
    /\ pc' = "set"
    /\ UNCHANGED <<NotExtract, input, pgs, reader_pos, display_sets, decode_result,
                   ods_idx, comp_idx, ExtractLocals, result>>

\* main.rs line 274: Ok(subtitles).
Return ==
    /\ pc = "set"
    /\ ds_idx > Len(display_sets)
    /\ result' = ResultOk(subtitles)
    /\ pc' = "done"
    /\ UNCHANGED <<NotExtract, input, pgs, reader_pos, display_sets, decode_result,
                   ExtractIndices, ExtractLocals>>

(***************************************************************************)
(* The streams the model is run on.  A stream is described by a sequence   *)
(* of segments (in the decoded form of lib.rs), written out in the wire    *)
(* format of the PGS container (the layout the Wire readers above read),   *)
(* then optionally truncated (cut) and with one byte replaced (patch).     *)
(***************************************************************************)
EncU16(n) == <<n \div 256, n % 256>>
EncU24(n) == <<n \div 65536, (n \div 256) % 256, n % 256>>
EncU32(n) == <<n \div 16777216, (n \div 65536) % 256, (n \div 256) % 256, n % 256>>

RECURSIVE Flatten(_)
Flatten(seqs) == IF seqs = <<>> THEN <<>> ELSE Head(seqs) \o Flatten(Tail(seqs))

MapSeq(Op(_), s) == [i \in 1..Len(s) |-> Op(s[i])]

EncCompositionObject(c) ==
    EncU16(c.object_id) \o <<c.window_id>>
    \o <<IF c.cropping = None THEN OBJECT_CROPPED_FLAG_OFF ELSE OBJECT_CROPPED_FLAG_FORCE>>
    \o EncU16(c.horizontal_position) \o EncU16(c.vertical_position)
    \o (IF c.cropping = None THEN <<>>
        ELSE EncU16(c.cropping[1].horizontal_position)
             \o EncU16(c.cropping[1].vertical_position)
             \o EncU16(c.cropping[1].width) \o EncU16(c.cropping[1].height))

EncCompositionState(st) ==
    IF st = "EpochStart" THEN COMPOSITION_STATE_EPOCH_START
    ELSE IF st = "AcquisitionPoint" THEN COMPOSITION_STATE_ACQUISITION_POINT
    ELSE COMPOSITION_STATE_NORMAL

EncLastInSequence(f) ==
    IF f = "First" THEN LAST_IN_SEQUENCE_FLAG_FIRST_IN_SEQ
    ELSE IF f = "Last" THEN LAST_IN_SEQUENCE_FLAG_LAST_IN_SEQ
    ELSE LAST_IN_SEQUENCE_FLAG_FIRST_AND_LAST_IN_SEQ

EncWindow(w) ==
    <<w.window_id>> \o EncU16(w.horizontal_position) \o EncU16(w.vertical_position)
    \o EncU16(w.width) \o EncU16(w.height)

EncPaletteEntry(e) ==
    <<e.entry_id, e.luminance, e.color_diff_red, e.color_diff_blue, e.transparency>>

\* The entries of a palette in increasing id order.
RECURSIVE EncEntries(_, _)
EncEntries(entries, ids) ==
    IF ids = {} THEN <<>>
    ELSE LET m == CHOOSE x \in ids : \A y \in ids : x <= y
         IN  EncPaletteEntry(entries[m]) \o EncEntries(entries, ids \ {m})

EncBody(seg) ==
    IF seg.type = "PCS"
    THEN EncU16(seg.width) \o EncU16(seg.height) \o <<FRAME_RATE>>
         \o EncU16(seg.composition_number)
         \o <<EncCompositionState(seg.composition_state)>>
         \o <<IF seg.palette_update THEN PALETTE_UPDATE_FLAG_TRUE
              ELSE PALETTE_UPDATE_FLAG_FALSE>>
         \o <<seg.palette_id>> \o <<Len(seg.composition_objects)>>
         \o Flatten(MapSeq(EncCompositionObject, seg.composition_objects))
    ELSE IF seg.type = "WDS"
    THEN <<Len(seg.windows)>> \o Flatten(MapSeq(EncWindow, seg.windows))
    ELSE IF seg.type = "PDS"
    THEN <<seg.palette_id, seg.palette_version>>
         \o EncEntries(seg.entries, DOMAIN seg.entries)
    ELSE IF seg.type = "ODS"
    THEN EncU16(seg.object_id) \o <<seg.object_version>>
         \o <<EncLastInSequence(seg.last_in_sequence)>>
         \o EncU24(Len(seg.data) + 4) \o EncU16(seg.width) \o EncU16(seg.height)
         \o seg.data
    ELSE <<>>

EncType(seg) ==
    IF seg.type = "PCS" THEN SEGMENT_TYPE_PCS
    ELSE IF seg.type = "WDS" THEN SEGMENT_TYPE_WDS
    ELSE IF seg.type = "PDS" THEN SEGMENT_TYPE_PDS
    ELSE IF seg.type = "ODS" THEN SEGMENT_TYPE_ODS
    ELSE SEGMENT_TYPE_END

EncSegment(seg) ==
    LET body == EncBody(seg)
    IN  EncU16(MAGIC_NUMBER) \o EncU32(seg.header.pts) \o EncU32(seg.header.dts)
        \o <<EncType(seg)>> \o EncU16(Len(body)) \o body

EncStream(segs) == Flatten(MapSeq(EncSegment, segs))

StreamOf(in) ==
    LET full == EncStream(in.segs)
        kept == IF in.cut = None THEN full ELSE SubSeq(full, 1, in.cut[1])
    IN  IF in.patch = None THEN kept
        ELSE [i \in 1..Len(kept) |->
                IF i = in.patch[1].at + 1 THEN in.patch[1].byte ELSE kept[i]]

\* The segments of a display set in stream order.
SegsOfSet(s) == <<s.pcs>> \o s.wds \o s.pds \o s.ods \o <<s.end>>
SegsOfSets(sets) == Flatten(MapSeq(SegsOfSet, sets))

(***************************************************************************)
(* Building blocks of the streams.                                         *)
(***************************************************************************)
Hdr(pts) == [pts |-> pts, dts |-> 0]

Entry(id, y, cr, cb, a) ==
    [entry_id |-> id, luminance |-> y, color_diff_red |-> cr,
     color_diff_blue |-> cb, transparency |-> a]

\* Three entries: opaque, half transparent, fully transparent.
EntriesA == (1 :> Entry(1, 235, 128, 128, 255)) @@ (2 :> Entry(2, 81, 240, 90, 128))
            @@ (3 :> Entry(3, 50, 100, 200, 0))
\* The same ids with other colours, and fewer of them.
EntriesB == (1 :> Entry(1, 16, 128, 128, 255)) @@ (2 :> Entry(2, 145, 54, 34, 200))

MkPDS(pts, id, version, entries) ==
    [type |-> "PDS", header |-> Hdr(pts), palette_id |-> id,
     palette_version |-> version, entries |-> entries]

MkODS(pts, id, flag, w, h, data) ==
    [type |-> "ODS", header |-> Hdr(pts), object_id |-> id, object_version |-> 0,
     last_in_sequence |-> flag, width |-> w, height |-> h, data |-> data]

MkWDS(pts) ==
    [type |-> "WDS", header |-> Hdr(pts),
     windows |-> <<[window_id |-> 0, width |-> 4, height |-> 2,
                    horizontal_position |-> 10, vertical_position |-> 20]>>]

MkEND(pts) == [type |-> "END", header |-> Hdr(pts)]

Comp(id) ==
    [object_id |-> id, window_id |-> 0, horizontal_position |-> 10,
     vertical_position |-> 20, cropping |-> None]

Cropped(id, x, y, w, h) ==
    [Comp(id) EXCEPT !.cropping =
        Some([width |-> w, height |-> h,
              horizontal_position |-> x, vertical_position |-> y])]

MkPCS(pts, state, palette_id, comps, w, h) ==
    [type |-> "PCS", header |-> Hdr(pts), width |-> w, height |-> h,
     composition_number |-> 0, composition_state |-> state,
     palette_update |-> FALSE, palette_id |-> palette_id,
     composition_objects |-> comps]

\* A display set: the PCS parameters, then the PDS, ODS parameters as
\* functions of the timestamp of the set.
MkSet(pts, state, palette_id, comps, wds, pds, ods) ==
    [pcs |-> MkPCS(pts, state, palette_id, comps, 1920, 1080),
     wds |-> wds, pds |-> pds, ods |-> ods, end |-> MkEND(pts)]

\* RLE data.  DataA is one pixel of colour 1, DataB one pixel of colour 2;
\* DataRun is a run of two pixels of colour 3 (a three byte code) and an
\* end-of-line marker; DataSquare is a 2 x 2 image, line by line.
DataA == <<1>>
DataB == <<2>>
DataRun == <<0, 130, 3, 0, 0>>
DataSquare == <<1, 2, 0, 0, 0, 130, 3, 0, 0>>

(***************************************************************************)
(* Bounds of the families of streams.                                      *)
(***************************************************************************)
\* The longest sequence of display sets of a stream.
MaxSets == 3
\* The longest sequence of segments in arbitrary order.
MaxSegs == 4
\* The largest offset, width or height of a cropping rectangle.
MaxCrop == 2

SeqsUpTo(S, n) == UNION {[1..k -> S] : k \in 0..n}

Described(segs) == [segs |-> segs, cut |-> None, patch |-> None]

\* The timestamp of the set at position i of a stream: five seconds apart.
PtsAt(i) == (i - 1) * 450000
\* A timestamp that is no whole number of seconds (half a second and one
\* tick), and is out of order at every position after the first.
OddPts == 90000 \div 2 + 1

\* The first set of a stream starts an epoch; the others are Normal.
StateAt(i) == IF i = 1 THEN "EpochStart" ELSE "Normal"

(***************************************************************************)
(* Timeline: the first set defines palette 0 and the objects 1 and 2; each *)
(* set shows none, one or two of them, at a timestamp in order or not.     *)
(***************************************************************************)
TimelineChoices == [odd : BOOLEAN, shown : 0..2]

TimelineSet(i, c) ==
    LET pts == IF c.odd THEN OddPts ELSE PtsAt(i)
    IN  MkSet(pts, StateAt(i), 0,
              SubSeq(<<Comp(1), Comp(2)>>, 1, c.shown),
              <<>>,
              IF i = 1 THEN <<MkPDS(pts, 0, 0, EntriesA)>> ELSE <<>>,
              IF i = 1 THEN <<MkODS(pts, 1, "FirstAndLast", 2, 1, DataA \o DataB),
                              MkODS(pts, 2, "FirstAndLast", 2, 1, DataRun)>>
              ELSE <<>>)

FamTimeline ==
    {Described(SegsOfSets([i \in 1..Len(cs) |-> TimelineSet(i, cs[i])])) :
        cs \in SeqsUpTo(TimelineChoices, MaxSets)}

(***************************************************************************)
(* Objects: the first set defines palette 0; each set carries one of the   *)
(* lists of object fragments below and shows the objects 1 and 2.          *)
(***************************************************************************)
ObjectChoices ==
    {"none", "fal", "first", "last", "first_last", "fal_last", "last_alone",
     "first_dims", "interleaved", "short", "pal_last", "others", "fal_dims"}

ObjectOds(pts, c) ==
    IF c = "fal" THEN <<MkODS(pts, 1, "FirstAndLast", 2, 1, DataA \o DataB)>>
    ELSE IF c = "first" THEN <<MkODS(pts, 1, "First", 2, 1, DataA)>>
    ELSE IF c \in {"last", "pal_last"} THEN <<MkODS(pts, 1, "Last", 2, 1, DataB)>>
    ELSE IF c = "first_last" THEN <<MkODS(pts, 1, "First", 2, 1, DataA),
                                    MkODS(pts, 1, "Last", 2, 1, DataB)>>
    ELSE IF c = "fal_last" THEN <<MkODS(pts, 1, "FirstAndLast", 2, 1, DataA \o DataB),
                                  MkODS(pts, 1, "Last", 2, 1, DataB)>>
    ELSE IF c = "last_alone" THEN <<MkODS(pts, 2, "Last", 1, 1, DataB)>>
    ELSE IF c = "first_dims" THEN <<MkODS(pts, 1, "First", 1, 2, DataB)>>
    ELSE IF c = "interleaved" THEN <<MkODS(pts, 1, "First", 2, 1, DataB),
                                     MkODS(pts, 2, "FirstAndLast", 1, 1, DataA),
                                     MkODS(pts, 1, "Last", 2, 1, DataA)>>
    ELSE IF c = "short" THEN <<MkODS(pts, 1, "FirstAndLast", 2, 1, DataA)>>
    ELSE IF c = "others" THEN <<MkODS(pts, 2, "FirstAndLast", 1, 1, DataA)>>
    ELSE IF c = "fal_dims" THEN <<MkODS(pts, 1, "FirstAndLast", 1, 2, DataA \o DataB)>>
    ELSE <<>>

ObjectSet(i, c) ==
    MkSet(PtsAt(i), StateAt(i), 0, <<Comp(1), Comp(2)>>, <<>>,
          IF i = 1 THEN <<MkPDS(PtsAt(i), 0, 0, EntriesA)>>
          ELSE IF c = "pal_last" THEN <<MkPDS(PtsAt(i), 0, 1, EntriesB)>>
          ELSE IF c = "others" THEN <<MkPDS(PtsAt(i), 1, 0, EntriesB)>>
          ELSE <<>>,
          ObjectOds(PtsAt(i), c))

FamObjects ==
    {Described(SegsOfSets([i \in 1..Len(cs) |-> ObjectSet(i, cs[i])])) :
        cs \in SeqsUpTo(ObjectChoices, MaxSets - 1)}

(***************************************************************************)
(* Epochs: each set has any composition state, selects palette 0, defines *)
(* palette 0 and object 1, or palette 0 alone, or nothing, and shows the   *)
(* objects 3 (never defined) and 1.                                        *)
(***************************************************************************)
EpochChoices ==
    [state : {"EpochStart", "Normal", "AcquisitionPoint"},
     defs : {"none", "palette", "all"}]

EpochSet(i, c) ==
    MkSet(PtsAt(i), c.state, 0, <<Comp(3), Comp(1)>>, <<MkWDS(PtsAt(i))>>,
          IF c.defs = "none" THEN <<>> ELSE <<MkPDS(PtsAt(i), 0, 0, EntriesA)>>,
          IF c.defs = "all"
          THEN <<MkODS(PtsAt(i), 1, "FirstAndLast", 2, 1, DataA \o DataB)>>
          ELSE <<>>)

\* The longest streams start with an epoch that defines palette and object.
EpochOpening == [state |-> "EpochStart", defs |-> "all"]

FamEpochs ==
    {Described(SegsOfSets([i \in 1..Len(cs) |-> EpochSet(i, cs[i])])) :
        cs \in SeqsUpTo(EpochChoices, MaxSets - 1)
               \cup {<<EpochOpening>> \o t : t \in [1..(MaxSets - 1) -> EpochChoices]}}

(***************************************************************************)
(* Palettes: one or two sets; each selects palette 0 or 1 and defines      *)
(* palette 0, palette 1, palette 0 twice, or none; object 1 is defined in  *)
(* the first set and shown in each.                                        *)
(***************************************************************************)
PaletteChoices == [selects : 0..1, defs : {"none", "p0", "p1", "p0_twice"}]

PaletteSet(i, c) ==
    MkSet(PtsAt(i), StateAt(i), c.selects, <<Comp(1)>>, <<>>,
          IF c.defs = "p0" THEN <<MkPDS(PtsAt(i), 0, 0, EntriesA)>>
          ELSE IF c.defs = "p1" THEN <<MkPDS(PtsAt(i), 1, 0, EntriesB)>>
          ELSE IF c.defs = "p0_twice" THEN <<MkPDS(PtsAt(i), 0, 0, EntriesA),
                                             MkPDS(PtsAt(i), 0, 1, EntriesB)>>
          ELSE <<>>,
          <<MkODS(PtsAt(i), 1, "FirstAndLast", 2, 1, DataA \o DataB)>>)

FamPalettes ==
    {Described(SegsOfSets([i \in 1..Len(cs) |-> PaletteSet(i, cs[i])])) :
        cs \in SeqsUpTo(PaletteChoices, MaxSets - 1)}

(***************************************************************************)
(* Cropping: one set with a 2 x 2 object shown through a cropping          *)
(* rectangle.  Screens: two sets that declare a screen size each.          *)
(***************************************************************************)
CropSet(x, y, w, h) ==
    MkSet(0, "EpochStart", 0, <<Cropped(1, x, y, w, h), Comp(1)>>, <<>>,
          <<MkPDS(0, 0, 0, EntriesA)>>,
          <<MkODS(0, 1, "FirstAndLast", 2, 2, DataSquare)>>)

FamCropping ==
    {Described(SegsOfSet(CropSet(x, y, w, h))) :
        x \in 0..MaxCrop, y \in 0..MaxCrop, w \in 0..MaxCrop, h \in 0..MaxCrop}

ScreenSet(i, wh) ==
    [MkSet(PtsAt(i), StateAt(i), 0, <<>>, <<>>, <<MkPDS(PtsAt(i), 0, 0, EntriesA)>>, <<>>)
        EXCEPT !.pcs.width = wh[1], !.pcs.height = wh[2]]

FamScreens ==
    {Described(SegsOfSets(<<ScreenSet(1, a), ScreenSet(2, b)>>)) :
        a \in {<<1920, 1080>>, <<1280, 1080>>},
        b \in {<<1920, 1080>>, <<1280, 1080>>, <<1920, 720>>}}

(***************************************************************************)
(* Order: up to MaxSegs segments, of the five kinds, in any order.         *)
(***************************************************************************)
SegmentChoices ==
    {MkPCS(PtsAt(2), "EpochStart", 0, <<Comp(1)>>, 1920, 1080),
     MkWDS(PtsAt(2)),
     MkPDS(PtsAt(2), 0, 0, EntriesA),
     MkODS(PtsAt(2), 1, "FirstAndLast", 2, 1, DataRun),
     MkEND(PtsAt(2))}

FamOrder == {Described(segs) : segs \in SeqsUpTo(SegmentChoices, MaxSegs)}

(***************************************************************************)
(* Truncated and damaged: one stream of two sets, cut after any number of  *)
(* its bytes, or with one byte of it replaced.                             *)
(***************************************************************************)
BaseSets ==
    <<MkSet(PtsAt(1), "EpochStart", 0, <<Cropped(1, 0, 0, 1, 1)>>,
            <<MkWDS(PtsAt(1))>>, <<MkPDS(PtsAt(1), 0, 0, EntriesB)>>,
            <<MkODS(PtsAt(1), 1, "FirstAndLast", 2, 1, DataRun)>>),
      MkSet(PtsAt(2), "Normal", 0, <<Comp(1)>>, <<>>, <<>>, <<>>)>>
BaseSegs == SegsOfSets(BaseSets)
BaseLen == Len(EncStream(BaseSegs))

FamCut == {[segs |-> BaseSegs, cut |-> Some(n), patch |-> None] : n \in 0..(BaseLen - 1)}

\* Offsets of the segments of the base stream.
OffsetOfSeg(k) == Len(EncStream(SubSeq(BaseSegs, 1, k - 1)))
\* The magic, the segment type and the segment size of a header; the
\* composition state, the palette update flag, the number of composition
\* objects and the cropped flag of the PCS (segment 1); the last-in-sequence
\* flag and the object data length of the ODS (segment 4).
PatchOffsets ==
    {OffsetOfSeg(k) + d : k \in {1, 3, 6}, d \in {0, 10, 12}}
    \cup {OffsetOfSeg(1) + 13 + d : d \in {7, 8, 10, 14}}
    \cup {OffsetOfSeg(4) + 13 + d : d \in {3, 6}}
PatchBytes == {0, 1, 64, 128, 192, 255}

FamPatch ==
    {[segs |-> BaseSegs, cut |-> None, patch |-> Some([at |-> a, byte |-> b])] :
        a \in PatchOffsets, b \in PatchBytes}

Inputs ==
    FamTimeline \cup FamObjects \cup FamEpochs \cup FamPalettes \cup FamCropping
    \cup FamScreens \cup FamOrder \cup FamCut \cup FamPatch

(***************************************************************************)
(* The run: subtitles_extract is called on the bytes of a stream.          *)
(***************************************************************************)
ExtractStart ==
    /\ pgs = StreamOf(input)
    /\ pc = "decode"
    /\ reader_pos = 0
    /\ display_sets = <<>>
    /\ ds_idx = 0
    /\ ods_idx = 0
    /\ comp_idx = 0
    /\ display_width = 0
    /\ display_height = 0
    /\ current_epoch = 0
    /\ objects = EmptyObjects
    /\ palettes = EmptyPalettes
    /\ subtitles = <<>>
    /\ previous_subtitles = <<>>
    /\ current_time = DurationZero
    /\ decode_result = "running"
    /\ result = NoResult
    /\ opened_by = <<>>

\* No call of a function on its own.
NoCall == [fn |-> "none", args |-> <<>>, ret |-> None]

\* subtitles_ocr is not running.
OcrIdle ==
    /\ available_parallelism = 1
    /\ ocr_pc = "idle"
    /\ ocr_in = <<>>
    /\ ocr_out = <<>>
    /\ handles = <<>>
    /\ text_subtitles = <<>>

\* subtitles_viewer is not running.
ViewIdle ==
    /\ view_pc = "idle"
    /\ curr_image = 0
    /\ window_buffer = None

\* wire.rs ImageDataDecoder::new (lines 123-125)
ImageDataDecoder(buf) == [buf |-> buf, offset |-> 0]

\* No iterator but one over no bytes, never asked.
IterIdle ==
    /\ decoder = ImageDataDecoder(<<>>)
    /\ yielded = <<>>

Init ==
    /\ input \in Inputs
    /\ ExtractStart
    /\ call = NoCall
    /\ OcrIdle
    /\ ViewIdle
    /\ IterIdle

Next ==
    \/ DecodeDisplaySets
    \/ CheckDisplaySets
    \/ BeginDisplaySet
    \/ ProcessOds
    \/ EndOds
    \/ ProcessComposition
    \/ EndDisplaySet
    \/ Return

Spec == Init /\ [][Next]_vars

(***************************************************************************)
(* main.rs srt_duration_display (lines 334-349): hours, minutes, seconds   *)
(* and milliseconds of a Duration, written hh:mm:ss,mmm.  Duration::MAX    *)
(* holds u64::MAX seconds, more than the integers of the model hold: its   *)
(* seconds are written -1 here, and so are its 5124095576030431 hours;     *)
(* its minutes, seconds and milliseconds are the ones the code writes.     *)
(***************************************************************************)
DurationMax == [secs |-> 0 - 1, nanos |-> 999999999]

srt_duration_display(duration) ==
    IF duration = DurationMax
    THEN [hours |-> 0 - 1, minutes |-> 0, seconds |-> 15, millis |-> 999]
    ELSE LET total_secs == duration.secs
         IN  [hours |-> total_secs \div 3600,
              minutes |-> (total_secs \div 60) % 60,
              seconds |-> total_secs % 60,
              millis |-> duration.nanos \div 1000000]

(***************************************************************************)
(* main.rs subtitles_to_srt (lines 351-434).  A text is a sequence of      *)
(* characters; the srt is the sequence of its blocks: the number, the two  *)
(* written timestamps and the text of each.                                *)
(***************************************************************************)
TextSubtitle(range, text) == [range |-> range, text |-> text]

\* struct Action (lines 360-365); subtitle is the 0-based index.
Action(kind, subtitle, timestamp) ==
    [kind |-> kind, subtitle |-> subtitle, timestamp |-> timestamp]

\* lines 386-397: an Add and a Remove per subtitle, in the order of the list.
RECURSIVE push_actions(_, _, _)
push_actions(subs, idx, actions) ==
    IF idx >= Len(subs) THEN actions
    ELSE push_actions(subs, idx + 1,
            actions \o <<Action("Add", idx, subs[idx + 1].range.begin),
                         Action("Remove", idx, subs[idx + 1].range.end)>>)

\* impl Ord for Action (lines 373-377): by timestamp alone.
ActionLeq(a, b) == DurationLeq(a.timestamp, b.timestamp)

\* line 398, slice::sort: a stable sort.  One action put into a sorted
\* list after every action that is not greater.
RECURSIVE sort_insert(_, _)
sort_insert(sorted, a) ==
    IF sorted = <<>> THEN <<a>>
    ELSE IF ActionLeq(sorted[Len(sorted)], a) THEN Append(sorted, a)
    ELSE Append(sort_insert(SubSeq(sorted, 1, Len(sorted) - 1), a), sorted[Len(sorted)])

RECURSIVE sort(_, _)
sort(actions, sorted) ==
    IF actions = <<>> THEN sorted
    ELSE sort(Tail(actions), sort_insert(sorted, Head(actions)))

\* lines 407-410: the texts on screen, a line feed after each.
RECURSIVE on_screen_text(_, _)
on_screen_text(subs, on_screen) ==
    IF on_screen = <<>> THEN <<>>
    ELSE subs[Head(on_screen) + 1].text \o <<"\n">>
         \o on_screen_text(subs, Tail(on_screen))

\* str::trim (line 411): the white space at both ends taken off.
Whitespace == {" ", "\n"}

RECURSIVE trim_start(_)
trim_start(s) ==
    IF s = <<>> THEN s
    ELSE IF Head(s) \in Whitespace THEN trim_start(Tail(s))
    ELSE s

RECURSIVE trim_end(_)
trim_end(s) ==
    IF s = <<>> THEN s
    ELSE IF s[Len(s)] \in Whitespace THEN trim_end(SubSeq(s, 1, Len(s) - 1))
    ELSE s

trim(s) == trim_end(trim_start(s))

\* Vec::retain (line 404)
retain_other(on_screen, subtitle) ==
    LET other(x) == x # subtitle
    IN  SelectSeq(on_screen, other)

\* lines 400-431, the loop over the sorted actions from action_idx (from 0).
RECURSIVE srt_loop(_, _, _, _, _, _)
srt_loop(subs, actions, action_idx, on_screen, srt, current_sub_num) ==
    LET action == actions[action_idx + 1]
        timestamp_end ==
            IF action_idx + 1 < Len(actions) THEN actions[action_idx + 2].timestamp
            ELSE DurationMax
        block(text) ==
            [num |-> current_sub_num,
             begin |-> srt_duration_display(action.timestamp),
             end |-> srt_duration_display(timestamp_end),
             text |-> text]
        write(screen, text) ==
            IF text # <<>>
            THEN srt_loop(subs, actions, action_idx + 1, screen,
                          Append(srt, block(text)), current_sub_num + 1)
            ELSE srt_loop(subs, actions, action_idx + 1, screen, srt,
                          current_sub_num)
        show(screen) == write(screen, trim(on_screen_text(subs, screen)))
    IN  IF action_idx >= Len(actions) THEN srt
        ELSE show(IF action.kind = "Add" THEN Append(on_screen, action.subtitle)
                  ELSE retain_other(on_screen, action.subtitle))

subtitles_to_srt(subs) ==
    srt_loop(subs, sort(push_actions(subs, 0, <<>>), <<>>), 0, <<>>, <<>>, 1)

(***************************************************************************)
(* Calls of the public functions of the pgs crate on their own: the        *)
(* function is applied to its arguments and its return value is kept.      *)
(***************************************************************************)
\* The longest RLE data of a call of decode_rle_data.
MaxRle == 4

Pending(fn, args) == [fn |-> fn, args |-> args, ret |-> None]

\* Bytes of every shape of code: a colour, the zero that starts a longer
\* code, and a second byte of each pair of top bits.
RleBytes == {0, 1, 2, 64, 130, 192}
RleDims == 0..2

\* The calls with data of up to max bytes.
RleCalls(max) ==
    {Pending("decode_rle_data", <<data, w, h>>) :
        data \in SeqsUpTo(RleBytes, max), w \in RleDims, h \in RleDims}

\* The longest buffer of a call of decode_image_data_code.
MaxCode == 4

\* The least, the greatest and a middle byte of each pair of top bits.
CodeBytes == {0, 1, 63, 64, 65, 128, 192, 255}

\* The calls with a buffer of up to max bytes.
CodeCalls(max) ==
    {Pending("decode_image_data_code", <<buf>>) : buf \in SeqsUpTo(CodeBytes, max)}

\* One segment of each kind (a PCS with a cropped composition object and
\* one without), whole, cut after any number of its bytes, or with one byte
\* of its header or one flag or length byte of its body replaced.
SegmentSamples == {BaseSegs[k] : k \in 1..Len(BaseSegs)}

WithByte(buf, at, byte) == [i \in 1..Len(buf) |-> IF i = at + 1 THEN byte ELSE buf[i]]

\* The magic, the segment type and the segment size; the composition
\* state, the palette update flag, the number of composition objects and
\* the cropped flag of a PCS; the last-in-sequence flag and the object data
\* length of an ODS.
SegmentPatchOffsets(seg) ==
    {0, 1, 10, 12}
    \cup (IF seg.type = "PCS" THEN {13 + 7, 13 + 8, 13 + 10, 13 + 14} ELSE {})
    \cup (IF seg.type = "ODS" THEN {13 + 3, 13 + 6} ELSE {})

SegmentPatchBytes ==
    PatchBytes \cup {SEGMENT_TYPE_PDS, SEGMENT_TYPE_ODS, SEGMENT_TYPE_PCS, SEGMENT_TYPE_WDS}

SegmentCalls ==
    UNION {{Pending("decode_segment", <<SubSeq(EncSegment(seg), 1, n)>>) :
                    n \in 0..Len(EncSegment(seg))} :
                seg \in SegmentSamples}
    \cup UNION {{Pending("decode_segment", <<WithByte(EncSegment(seg), at, byte)>>) :
                    at \in SegmentPatchOffsets(seg), byte \in SegmentPatchBytes} :
                seg \in SegmentSamples}

\* The records of display sets five seconds apart, each of
\* which shows up to two texts: the records of a set begin at its time and
\* end at the time of the next set, those of the last set at zero.
SrtTexts == {<<"a">>, <<"b">>, <<>>}

SrtRecordsOfSet(shown, i) ==
    [k \in 1..Len(shown[i]) |->
        TextSubtitle(
            TimeRange(clock_to_duration(PtsAt(i)),
                      IF i < Len(shown) THEN clock_to_duration(PtsAt(i + 1))
                      ELSE DurationZero),
            shown[i][k])]

SrtRecords(shown) == Flatten([i \in 1..Len(shown) |-> SrtRecordsOfSet(shown, i)])

\* The calls with the records of up to max display sets.
SrtCalls(max) ==
    {Pending("subtitles_to_srt", <<SrtRecords(shown)>>) :
        shown \in SeqsUpTo(SeqsUpTo(SrtTexts, 2), max)}

\* Tick counts at both ends and in the middle of a second, in the first
\* seconds and in the last second the integers of the model hold.
ClockTicks ==
    {k * 90000 + r : k \in {0, 1, 2, 23859}, r \in {0, 1, 45000, 45001, 89998, 89999}}
    \cup {23860 * 90000, 23860 * 90000 + 83647}

ClockCalls == {Pending("clock_to_duration", <<t>>) : t \in ClockTicks}

\* The function called and its arguments.
IsCall ==
    \/ call \in ClockCalls
    \/ call \in RleCalls(MaxRle)
    \/ call \in CodeCalls(MaxCode)
    \/ call \in SegmentCalls
    \/ call \in SrtCalls(MaxSets)

InitLib ==
    /\ input = Described(<<>>)
    /\ ExtractStart
    /\ IsCall
    /\ OcrIdle
    /\ ViewIdle
    /\ IterIdle

Returns(fn, value) ==
    /\ call.fn = fn
    /\ call.ret = None
    /\ call' = [call EXCEPT !.ret = Some(value)]
    /\ UNCHANGED <<input, pgs, pc, reader_pos, display_sets, decode_result, result,
                   ExtractIndices, ExtractLocals, OcrVars, ViewVars, IterVars>>

CallDecodeRleData ==
    /\ call.fn = "decode_rle_data"
    /\ Returns("decode_rle_data",
               decode_rle_data(call.args[1], call.args[2], call.args[3]))

CallDecodeImageDataCode ==
    /\ call.fn = "decode_image_data_code"
    /\ Returns("decode_image_data_code", decode_image_data_code(call.args[1], 0))

CallDecodeSegment ==
    /\ call.fn = "decode_segment"
    /\ Returns("decode_segment", decode_segment(call.args[1], 0))

CallSubtitlesToSrt ==
    /\ call.fn = "subtitles_to_srt"
    /\ Returns("subtitles_to_srt", subtitles_to_srt(call.args[1]))

CallClockToDuration ==
    /\ call.fn = "clock_to_duration"
    /\ Returns("clock_to_duration", clock_to_duration(call.args[1]))

NextLib ==
    \/ CallClockToDuration
    \/ CallDecodeRleData
    \/ CallDecodeImageDataCode
    \/ CallDecodeSegment
    \/ CallSubtitlesToSrt

SpecLib == InitLib /\ [][NextLib]_vars

(***************************************************************************)
(* main.rs subtitles_ocr (lines 277-332) on the records subtitles_extract  *)
(* returned.  The thread that calls it sends every record into ocr_in and  *)
(* drops the sender, spawns available_parallelism workers, joins them,     *)
(* drops the sender of ocr_out and receives what is in it.  A worker       *)
(* receives a record, has tesseract read its bitmap, sends the text with   *)
(* the range of the record, and starts over; it returns when ocr_in is     *)
(* empty (its sender is dropped before any worker runs).  The calls of     *)
(* tesseract are taken to succeed.                                         *)
(***************************************************************************)
\* The most records of a run of subtitles_ocr, and the most workers.
MaxOcr == 3
MaxWorkers == 2

\* tesseract: set_frame, recognize, get_text (lines 296-307).  What it
\* reads is not part of the program: no text in a bitmap without a visible
\* pixel, one letter in any other.
tesseract_get_text(image) ==
    IF \A i \in 1..(Len(image.pixels) \div 4) : image.pixels[4 * i] = 0
    THEN <<>>
    ELSE <<"a">>

OcrBitmaps == {Bitmap(1, 1, <<235, 235, 235, 255>>), Bitmap(1, 1, <<0, 0, 0, 0>>)}

\* Records of consecutive display sets, five seconds apart.
OcrInputs ==
    UNION {{[i \in 1..n |->
                BitmapSubtitle(TimeRange(clock_to_duration(PtsAt(i)),
                                         clock_to_duration(PtsAt(i + 1))), bitmaps[i])] :
              bitmaps \in [1..n -> OcrBitmaps]} : n \in 0..MaxOcr}

InitOcr ==
    /\ input = Described(<<>>)
    /\ pgs = <<>>
    /\ pc = "done"
    /\ reader_pos = 0
    /\ display_sets = <<>>
    /\ ds_idx = 0
    /\ ods_idx = 0
    /\ comp_idx = 0
    /\ display_width = 0
    /\ display_height = 0
    /\ current_epoch = 0
    /\ objects = EmptyObjects
    /\ palettes = EmptyPalettes
    /\ subtitles \in OcrInputs
    /\ result = ResultOk(subtitles)
    /\ previous_subtitles = <<>>
    /\ current_time = DurationZero
    /\ decode_result = "Ok"
    /\ opened_by = <<>>
    /\ call = NoCall
    /\ available_parallelism \in 1..MaxWorkers
    /\ ocr_pc = "idle"
    /\ ocr_in = <<>>
    /\ ocr_out = <<>>
    /\ handles = <<>>
    /\ text_subtitles = <<>>
    /\ ViewIdle
    /\ IterIdle

OcrFrame ==
    UNCHANGED <<input, pgs, pc, reader_pos, display_sets, decode_result, result,
                ExtractIndices, ExtractLocals, call, available_parallelism,
                ViewVars, IterVars>>

\* A worker: where it stands ("recv", "ocr", "returned") and the record it holds.
Handle(at, subtitle) == [at |-> at, subtitle |-> subtitle]

\* lines 279-286: every record is sent, the sender is dropped.
OcrSend ==
    /\ ocr_pc = "idle"
    /\ pc = "done"
    /\ result.kind = "Ok"
    /\ ocr_in' = result.subtitles
    /\ ocr_pc' = "spawn"
    /\ UNCHANGED <<ocr_out, handles, text_subtitles>>
    /\ OcrFrame

\* lines 289-320: the workers are spawned.
OcrSpawn ==
    /\ ocr_pc = "spawn"
    /\ handles' = [w \in 1..available_parallelism |-> Handle("recv", None)]
    /\ ocr_pc' = "join"
    /\ UNCHANGED <<ocr_in, ocr_out, text_subtitles>>
    /\ OcrFrame

\* line 298: ocr_in_receiver.recv() gives the oldest record.
WorkerRecv(w) ==
    /\ handles[w].at = "recv"
    /\ ocr_in # <<>>
    /\ handles' = [handles EXCEPT ![w] = Handle("ocr", Some(Head(ocr_in)))]
    /\ ocr_in' = Tail(ocr_in)
    /\ UNCHANGED <<ocr_pc, ocr_out, text_subtitles>>
    /\ OcrFrame

\* The worker with the text it read sent nowhere.
WorkerSend_lost(w) ==
    /\ handles[w].at = "ocr"
    /\ handles' = [handles EXCEPT ![w] = Handle("recv", None)]
    /\ UNCHANGED <<ocr_pc, ocr_in, ocr_out, text_subtitles>>
    /\ OcrFrame

\* lines 299-315: the text of the record is sent with its range.
WorkerSend(w) ==
    /\ handles[w].at = "ocr"
    /\ ocr_out' = Append(ocr_out,
                         TextSubtitle(handles[w].subtitle[1].range,
                                      tesseract_get_text(handles[w].subtitle[1].bitmap)))
    /\ handles' = [handles EXCEPT ![w] = Handle("recv", None)]
    /\ UNCHANGED <<ocr_pc, ocr_in, text_subtitles>>
    /\ OcrFrame

\* lines 298, 317: recv() fails on the empty channel, the worker returns Ok.
WorkerReturn(w) ==
    /\ handles[w].at = "recv"
    /\ ocr_in = <<>>
    /\ handles' = [handles EXCEPT ![w] = Handle("returned", None)]
    /\ UNCHANGED <<ocr_pc, ocr_in, ocr_out, text_subtitles>>
    /\ OcrFrame

\* lines 321-331: every worker is joined, then what is in ocr_out is
\* received in the order it was sent.
OcrCollect ==
    /\ ocr_pc = "join"
    /\ \A w \in DOMAIN handles : handles[w].at = "returned"
    /\ text_subtitles' = ocr_out
    /\ ocr_out' = <<>>
    /\ ocr_pc' = "done"
    /\ UNCHANGED <<ocr_in, handles>>
    /\ OcrFrame

NextOcr ==
    \/ OcrSend
    \/ OcrSpawn
    \/ \E w \in DOMAIN handles : WorkerRecv(w)
    \/ \E w \in DOMAIN handles : WorkerSend(w)
    \/ \E w \in DOMAIN handles : WorkerReturn(w)
    \/ OcrCollect

SpecOcr == InitOcr /\ [][NextOcr]_vars

\* The threads are scheduled: a step that the calling thread or a worker
\* can take is taken in the end (no thread waits on another but in join
\* and recv, which are the guards of the steps).
SpecOcrFair == SpecOcr /\ WF_vars(NextOcr)

(***************************************************************************)
(* main.rs subtitles_viewer (lines 436-472) on the records                 *)
(* subtitles_extract returned (main.rs lines 103-108, --view).  Each turn  *)
(* of its loop reads the keys A and D, moves the selected index, fetches   *)
(* the bitmap at the index and updates the window with it.  The window and *)
(* the keyboard are not part of the program: whether the window is open,   *)
(* whether Escape is down, whether A or D was pressed and whether the      *)
(* update succeeds are any of the possible answers.                        *)
(***************************************************************************)
InitView ==
    /\ input = Described(<<>>)
    /\ pgs = <<>>
    /\ pc = "done"
    /\ reader_pos = 0
    /\ display_sets = <<>>
    /\ ds_idx = 0
    /\ ods_idx = 0
    /\ comp_idx = 0
    /\ display_width = 0
    /\ display_height = 0
    /\ current_epoch = 0
    /\ objects = EmptyObjects
    /\ palettes = EmptyPalettes
    /\ subtitles \in OcrInputs
    /\ result = ResultOk(subtitles)
    /\ previous_subtitles = <<>>
    /\ current_time = DurationZero
    /\ decode_result = "Ok"
    /\ opened_by = <<>>
    /\ call = NoCall
    /\ OcrIdle
    /\ ViewIdle
    /\ IterIdle

ViewFrame ==
    UNCHANGED <<input, pgs, pc, reader_pos, display_sets, decode_result, result,
                ExtractIndices, ExtractLocals, call, OcrVars, IterVars>>

\* lines 437-449: the window is made, the first image is selected.
ViewerOpen ==
    /\ view_pc = "idle"
    /\ pc = "done"
    /\ result.kind = "Ok"
    /\ view_pc' = "loop"
    /\ curr_image' = 0
    /\ UNCHANGED window_buffer
    /\ ViewFrame

\* usize::saturating_sub and usize::min (lines 452, 455): the index after
\* the keys of one turn, A before D.
curr_image_after_keys(len, curr, key_a, key_d) ==
    LET after_a == IF key_a THEN saturating_sub(curr, 1) ELSE curr
    IN  IF key_d THEN Min(saturating_sub(len, 1), after_a + 1) ELSE after_a

\* lines 459-465: one 0RGB word per pixel.
RECURSIVE window_words(_, _, _)
window_words(pixels, i, buffer) ==
    IF i >= Len(pixels) \div 4 THEN buffer
    ELSE window_words(pixels, i + 1,
            Append(buffer, (pixels[i * 4 + 1] * 256 + pixels[i * 4 + 2]) * 256
                               + pixels[i * 4 + 3]))

\* lines 450-469, one turn of the loop with the window open and Escape up:
\* subtitles[curr_image] is an access out of range, a panic, when the index
\* is not below the length of the list.
ViewerTurn(key_a, key_d, updated) ==
    /\ view_pc = "loop"
    /\ LET list == result.subtitles
           selected == curr_image_after_keys(Len(list), curr_image, key_a, key_d)
       IN  /\ curr_image' = selected
           /\ IF ~(selected < Len(list))
              THEN /\ view_pc' = "panic"
                   /\ UNCHANGED window_buffer
              ELSE /\ window_buffer' =
                          Some([buffer |-> window_words(list[selected + 1].bitmap.pixels,
                                                        0, <<>>),
                                width |-> list[selected + 1].bitmap.width,
                                height |-> list[selected + 1].bitmap.height])
                   /\ view_pc' = IF updated THEN "loop" ELSE "err"
    /\ ViewFrame

\* line 450: the window is closed or Escape is down; line 471, Ok(()).
ViewerClose ==
    /\ view_pc = "loop"
    /\ view_pc' = "closed"
    /\ UNCHANGED <<curr_image, window_buffer>>
    /\ ViewFrame

NextView ==
    \/ ViewerOpen
    \/ \E key_a \in BOOLEAN, key_d \in BOOLEAN, updated \in BOOLEAN :
           ViewerTurn(key_a, key_d, updated)
    \/ ViewerClose

SpecView == InitView /\ [][NextView]_vars

(***************************************************************************)
(* wire.rs decode_image_data (lines 229-231) and the iterator it returns,  *)
(* ImageDataDecoder (lines 117-142), asked for its next item again and     *)
(* again by a caller that does not stop at an error.  An item is None, or  *)
(* Some of Ok(code) or of Err(kind).                                       *)
(***************************************************************************)
\* The most calls of next on one iterator.
MaxNext == 6

\* lines 131-141: the item, and the offset the call leaves.
ImageDataDecoder_next(self) ==
    LET match(r) ==
            IF r.ok THEN [item |-> Some(Ok(r.val, 0)), offset |-> self.offset + r.pos]
            ELSE [item |-> Some(r), offset |-> self.offset]
    IN  IF self.offset = Len(self.buf) THEN [item |-> None, offset |-> self.offset]
        ELSE match(decode_image_data_code(self.buf, self.offset))

InitIter ==
    /\ input = Described(<<>>)
    /\ ExtractStart
    /\ call = NoCall
    /\ OcrIdle
    /\ ViewIdle
    /\ decoder \in {ImageDataDecoder(buf) : buf \in SeqsUpTo(RleBytes, MaxRle)}
    /\ yielded = <<>>

IterNext ==
    /\ Len(yielded) < MaxNext
    /\ \E next \in {ImageDataDecoder_next(decoder)} :
           /\ decoder' = [decoder EXCEPT !.offset = next.offset]
           /\ yielded' = Append(yielded, next.item)
    /\ UNCHANGED <<input, pgs, pc, reader_pos, display_sets, decode_result, result,
                   ExtractIndices, ExtractLocals, call, OcrVars, ViewVars>>

NextIter == IterNext

SpecIter == InitIter /\ [][NextIter]_vars

(***************************************************************************)
(* Properties.  The vocabulary they share.                                 *)
(***************************************************************************)
\* subtitles_extract has returned Ok(subtitles).
Returned == pc = "done" /\ result.kind = "Ok"

\* The presentation time of the display set at position i.
TimeOfSet(i) == clock_to_duration(display_sets[i].pcs.header.pts)

\* The segments of a run of segments that are of one kind, in order.
OfKind(run, kind) ==
    LET is_kind(seg) == seg.type = kind
    IN  SelectSeq(run, is_kind)

\* The display set a run PCS, (WDS | PDS | ODS)*, END makes.
SetOfRun(run) ==
    [pcs |-> run[1], wds |-> OfKind(run, "WDS"), pds |-> OfKind(run, "PDS"),
     ods |-> OfKind(run, "ODS"), end |-> run[Len(run)]]

\* The sequence of segments segs read as display sets, from segment i on:
\* open holds the segments of the set that is being read, sets the sets
\* that are complete.  The reading is "complete" when segs ends after an
\* END, "truncated" when it ends inside a set, and "invalid" at a segment
\* that is not a PCS where a set begins, or at a PCS inside a set.
RECURSIVE Grouping(_, _, _, _)
Grouping(segs, i, open, sets) ==
    IF i > Len(segs)
    THEN [kind |-> IF open = <<>> THEN "complete" ELSE "truncated", sets |-> sets]
    ELSE IF (open = <<>>) # (segs[i].type = "PCS")
    THEN [kind |-> "invalid", sets |-> sets]
    ELSE IF segs[i].type = "END"
    THEN Grouping(segs, i + 1, <<>>, Append(sets, SetOfRun(Append(open, segs[i]))))
    ELSE Grouping(segs, i + 1, Append(open, segs[i]), sets)

InputGrouping == Grouping(input.segs, 1, <<>>, <<>>)

\* The stream is the bytes of the described segments, whole and unchanged.
Intact == input.cut = None /\ input.patch = None

\* The runs of segs that end with an END, in order.
RECURSIVE RunsOf(_, _, _, _)
RunsOf(segs, i, open, runs) ==
    IF i > Len(segs) THEN runs
    ELSE IF segs[i].type = "END"
    THEN RunsOf(segs, i + 1, <<>>, Append(runs, Append(open, segs[i])))
    ELSE RunsOf(segs, i + 1, Append(open, segs[i]), runs)

InputRuns == RunsOf(input.segs, 1, <<>>, <<>>)

\* The lengths of the prefixes of the stream that end with a complete set.
SetBoundaries ==
    {Len(EncStream(SegsOfSets(SubSeq(InputGrouping.sets, 1, k)))) :
        k \in 0..Len(InputGrouping.sets)}

\* The stream ends inside a display set.
EndsMidSet ==
    /\ input.patch = None
    /\ InputGrouping.kind # "invalid"
    /\ Len(pgs) \notin SetBoundaries

\* The ODS the loop of lines 199-232 is about to process.
CurrentOds == ds.ods[ods_idx]
AtOds == pc = "ods" /\ ods_idx <= Len(ds.ods)

\* The composition object the loop of lines 234-271 is about to process.
CurrentComp == ds.pcs.composition_objects[comp_idx]
AtComp == pc = "comp" /\ comp_idx <= Len(ds.pcs.composition_objects)

\* The display set at ds_idx passes the assertions of lines 168-169.
AtSet ==
    /\ pc = "set"
    /\ ds_idx <= Len(display_sets)
    /\ ds.pcs.width = display_width
    /\ ds.pcs.height = display_height

Without(map, k) == [x \in (DOMAIN map) \ {k} |-> map[x]]

\* The first display set of the epoch the display set at i belongs to.
EpochStartOf(i) ==
    CHOOSE j \in 1..i :
        /\ display_sets[j].pcs.composition_state = "EpochStart"
        /\ \A m \in (j + 1)..i : display_sets[m].pcs.composition_state # "EpochStart"

\* The object ids and the palette ids that the display sets of the epoch
\* of set i define, up to set i.
ObjectIdsOfEpoch(i) ==
    UNION {{display_sets[m].ods[n].object_id : n \in 1..Len(display_sets[m].ods)} :
              m \in EpochStartOf(i)..i}
PaletteIdsOfEpoch(i) ==
    UNION {{display_sets[m].pds[n].palette_id : n \in 1..Len(display_sets[m].pds)} :
              m \in EpochStartOf(i)..i}

(***************************************************************************)
(* C1.  When subtitles_extract returns Ok, every record that was opened    *)
(* while display set i was processed, i not the last, begins at the        *)
(* presentation time of set i and ends at the presentation time of set     *)
(* i + 1, whether or not set i + 1 opens a record.                         *)
(***************************************************************************)
C1_ClosedByNextSet ==
    Returned =>
        \A k \in 1..Len(result.subtitles) :
            opened_by[k] < Len(display_sets) =>
                result.subtitles[k].range =
                    TimeRange(TimeOfSet(opened_by[k]), TimeOfSet(opened_by[k] + 1))

\* Sets at 0 s, 5 s and 10 s; the first two open a record each, the third
\* opens none: the records are [0, 5) and [5, 10).
C1_Witness ==
    /\ Returned
    /\ Len(display_sets) = 3
    /\ display_sets[3].pcs.composition_objects = <<>>
    /\ opened_by = <<1, 2>>
    /\ result.subtitles[1].range = TimeRange(Duration(0, 0), Duration(5, 0))
    /\ result.subtitles[2].range = TimeRange(Duration(5, 0), Duration(10, 0))

(***************************************************************************)
(* C2.  When subtitles_extract returns Ok, every record opened by the last *)
(* display set has an end that is at or after its start and at or after    *)
(* the presentation time of every display set of the stream.               *)
(***************************************************************************)
C2_LastRecordsOpenEnded ==
    Returned =>
        \A k \in 1..Len(result.subtitles) :
            opened_by[k] = Len(display_sets) =>
                /\ DurationLeq(result.subtitles[k].range.begin,
                               result.subtitles[k].range.end)
                /\ \A i \in 1..Len(display_sets) :
                       DurationLeq(TimeOfSet(i), result.subtitles[k].range.end)

(***************************************************************************)
(* C3.  When the stream ends inside a display set, decode_display_sets     *)
(* does not return Ok.                                                     *)
(***************************************************************************)
C3_TruncatedSetIsError ==
    (pc # "decode" /\ EndsMidSet) => decode_result # "Ok"

(***************************************************************************)
(* C4.  For a stream that is the bytes of n >= 0 well-formed display sets  *)
(* and nothing else, decode_display_sets returns Ok with those n sets in   *)
(* stream order, having read the whole stream.                             *)
(***************************************************************************)
C4_WholeSetsDecoded ==
    (pc # "decode" /\ Intact /\ InputGrouping.kind = "complete") =>
        /\ decode_result = "Ok"
        /\ display_sets = InputGrouping.sets
        /\ reader_pos = Len(pgs)

C4_Witness ==
    /\ pc = "check"
    /\ Intact
    /\ InputGrouping.kind = "complete"
    /\ decode_result = "Ok"
    /\ Len(display_sets) = 2
    /\ display_sets[1].ods # <<>>
    /\ reader_pos = Len(pgs)

(***************************************************************************)
(* C5.  The k-th display set decoded is built from the k-th run of         *)
(* segments of the stream that ends with an END: its pcs is the first      *)
(* segment of the run and a PCS, its end is the last and an END, every     *)
(* segment between them is a WDS, a PDS or an ODS, and its wds, pds and    *)
(* ods are the segments of each kind between them, in stream order.        *)
(***************************************************************************)
C5_SetsAreRuns ==
    input.patch = None =>
        /\ Len(display_sets) <= Len(InputRuns)
        /\ \A k \in 1..Len(display_sets) :
              LET run == InputRuns[k]
              IN  /\ Len(run) >= 2
                  /\ display_sets[k].pcs = run[1]
                  /\ run[1].type = "PCS"
                  /\ display_sets[k].end = run[Len(run)]
                  /\ \A j \in 2..(Len(run) - 1) : run[j].type \in {"WDS", "PDS", "ODS"}
                  /\ display_sets[k].wds = OfKind(run, "WDS")
                  /\ display_sets[k].pds = OfKind(run, "PDS")
                  /\ display_sets[k].ods = OfKind(run, "ODS")

C5_Witness ==
    /\ pc = "check"
    /\ input.patch = None
    /\ Len(display_sets) = 2
    /\ display_sets[2].wds # <<>>
    /\ display_sets[2].pds # <<>>
    /\ display_sets[2].ods # <<>>

(***************************************************************************)
(* C6.  When a display set of the stream begins with a segment that is not *)
(* a PCS, or has a PCS before its END, decode_display_sets returns an      *)
(* InvalidData error, and subtitles_extract returns an error and no        *)
(* records, whatever sets were decoded before.                             *)
(***************************************************************************)
C6_MisplacedPcsIsInvalidData ==
    (pc # "decode" /\ Intact /\ InputGrouping.kind = "invalid") =>
        /\ decode_result = "InvalidData"
        /\ pc = "done"
        /\ result = ResultErr("parsing pgs")

\* One set was decoded before the set that is refused.
C6_Witness ==
    /\ pc = "done"
    /\ Intact
    /\ InputGrouping.kind = "invalid"
    /\ Len(InputGrouping.sets) = 1
    /\ Len(display_sets) = 1
    /\ decode_result = "InvalidData"

(***************************************************************************)
(* C7.  A Last fragment with data B for an object that is unfinished with  *)
(* data A (left by a First fragment), of the declared width and height,    *)
(* leaves the object as one FirstAndLast fragment with data A \o B does    *)
(* that is applied, with the same palette, where the object is absent;     *)
(* and it fails exactly when that fragment fails.                          *)
(***************************************************************************)
C7_FirstThenLastIsWhole ==
    [][(/\ AtOds
        /\ CurrentOds.last_in_sequence = "Last"
        /\ CurrentOds.object_id \in DOMAIN objects
        /\ ~objects[CurrentOds.object_id].finished
        /\ objects[CurrentOds.object_id].width = CurrentOds.width
        /\ objects[CurrentOds.object_id].height = CurrentOds.height)
       => \E whole \in {apply_ods(Without(objects, CurrentOds.object_id), palette,
                          [CurrentOds EXCEPT
                              !.last_in_sequence = "FirstAndLast",
                              !.data = objects[CurrentOds.object_id].data
                                          \o CurrentOds.data])} :
              IF whole.ok
              THEN /\ pc' = "ods"
                   /\ CurrentOds.object_id \in DOMAIN objects'
                   /\ objects'[CurrentOds.object_id] = whole.val[CurrentOds.object_id]
              ELSE /\ pc' = "done"
                   /\ result' = ResultErr(whole.err)]_vars

\* The Last fragment of object 1 has just been joined to a First fragment:
\* two pixels, decoded from the two fragments of one byte each.
C7_Witness ==
    /\ pc = "ods"
    /\ ods_idx > 1
    /\ ds.ods[ods_idx - 1].last_in_sequence = "Last"
    /\ ds.ods[ods_idx - 1].object_id \in DOMAIN objects
    /\ objects[ds.ods[ods_idx - 1].object_id].finished
    /\ objects[ds.ods[ods_idx - 1].object_id].data = DataA \o DataB
    /\ Len(objects[ds.ods[ods_idx - 1].object_id].bitmap.pixels) = 8

(***************************************************************************)
(* C8.  A Last fragment for an object that is finished ends the            *)
(* extraction with an error and no records, and leaves the object as it    *)
(* was.                                                                    *)
(***************************************************************************)
C8_LastOnFinishedFails ==
    [][(/\ AtOds
        /\ CurrentOds.last_in_sequence = "Last"
        /\ CurrentOds.object_id \in DOMAIN objects
        /\ objects[CurrentOds.object_id].finished)
       => /\ pc' = "done"
          /\ result' = ResultErr("invalid ods segment")
          /\ result'.subtitles = <<>>
          /\ objects' = objects]_vars

C8_Witness ==
    /\ pc = "done"
    /\ result = ResultErr("invalid ods segment")
    /\ ds.ods[ods_idx].last_in_sequence = "Last"
    /\ objects[ds.ods[ods_idx].object_id].finished

(***************************************************************************)
(* C9.  The head of the loop body for a display set that starts an epoch   *)
(* leaves no object and only the palettes of that set.  A composition      *)
(* object whose object id no display set of the current epoch defines      *)
(* opens no record and raises no error; a PCS whose palette id no display  *)
(* set of the current epoch defines ends the extraction with an error.     *)
(***************************************************************************)
C9_EpochStartForgets ==
    [][/\ (AtSet /\ ds.pcs.composition_state = "EpochStart")
            => /\ objects' = EmptyObjects
               /\ DOMAIN palettes' = {ds.pds[n].palette_id : n \in 1..Len(ds.pds)}
       /\ (AtSet /\ ds.pcs.palette_id \notin PaletteIdsOfEpoch(ds_idx))
            => /\ pc' = "done"
               /\ result' = ResultErr("PCS referenced invalid palette")
       /\ (AtComp /\ CurrentComp.object_id \notin ObjectIdsOfEpoch(ds_idx))
            => /\ subtitles' = subtitles
               /\ result' = result]_vars

\* The second set starts an epoch and defines a palette alone; it and the
\* third set, a later set of that epoch, show object 1, which the first set
\* defined and showed: one record, of set 1.
C9_Witness ==
    /\ Returned
    /\ Len(display_sets) = 3
    /\ display_sets[2].pcs.composition_state = "EpochStart"
    /\ display_sets[2].pds # <<>>
    /\ display_sets[3].pcs.composition_state = "Normal"
    /\ \A k \in 2..3 :
           \E n \in 1..Len(display_sets[k].pcs.composition_objects) :
               display_sets[k].pcs.composition_objects[n].object_id
                   \in ObjectIdsOfEpoch(1) \ ObjectIdsOfEpoch(k)
    /\ opened_by = <<1>>
    /\ objects = EmptyObjects

(***************************************************************************)
(* C10.  A composition object whose object is absent from the object map,  *)
(* or present and unfinished, opens no record and raises no error: the     *)
(* records are left as they are and the loop moves on to the next          *)
(* composition object.                                                     *)
(***************************************************************************)
C10_MissingOrUnfinishedSkipped ==
    [][(/\ AtComp
        /\ \/ CurrentComp.object_id \notin DOMAIN objects
           \/ ~objects[CurrentComp.object_id].finished)
       => /\ subtitles' = subtitles
          /\ previous_subtitles' = previous_subtitles
          /\ result' = result
          /\ pc' = "comp"
          /\ comp_idx' = comp_idx + 1]_vars

\* Two sets that show an absent object and then object 1: each skips the
\* first and opens a record for the second, and the extraction returns.
C10_Witness ==
    /\ Returned
    /\ Len(display_sets) = 2
    /\ opened_by = <<1, 2>>
    /\ \A i \in 1..2 :
          /\ Len(display_sets[i].pcs.composition_objects) = 2
          /\ display_sets[i].pcs.composition_objects[1].object_id
                \notin DOMAIN objects
          /\ display_sets[i].pcs.composition_objects[2].object_id
                \in DOMAIN objects

(***************************************************************************)
(* C11.  For every display set the loop reaches, the palette id of its PCS *)
(* is looked up in the palette table of the current epoch after the PDS of *)
(* the set itself have been inserted.  When the id is absent the           *)
(* extraction ends with the error "PCS referenced invalid palette" and no  *)
(* ODS and no composition object of the set has been processed; when it is *)
(* present the loop goes on to the ODS of the set.  No ODS and no          *)
(* composition object is processed in a set that did not pass the lookup.  *)
(***************************************************************************)
C11_UnknownPaletteFails ==
    [][/\ AtSet =>
            LET own == {ds.pds[n].palette_id : n \in 1..Len(ds.pds)}
                kept == IF ds.pcs.composition_state = "EpochStart" THEN {}
                        ELSE DOMAIN palettes
            IN  IF ds.pcs.palette_id \in kept \cup own
                THEN /\ pc' = "ods"
                     /\ result' = result
                ELSE /\ pc' = "done"
                     /\ result' = ResultErr("PCS referenced invalid palette")
                     /\ DOMAIN objects' \subseteq DOMAIN objects
                     /\ Len(subtitles') = Len(subtitles)
                     /\ opened_by' = opened_by
       /\ (AtOds \/ AtComp) => ds.pcs.palette_id \in DOMAIN palettes]_vars

\* The second set selects a palette that no set defines, defines another
\* palette and an object, and shows the object: the extraction fails at
\* the second set, with the one record of the first set.
C11_Witness ==
    /\ pc = "done"
    /\ result = ResultErr("PCS referenced invalid palette")
    /\ ds_idx = 2
    /\ ds.pds # <<>>
    /\ ds.ods # <<>>
    /\ ds.pcs.composition_objects # <<>>
    /\ ds.pcs.palette_id \notin PaletteIdsOfEpoch(2)
    /\ opened_by = <<1>>

(***************************************************************************)
(* C12.  decode_rle_data(data, width, height), when every code of data     *)
(* decodes: it returns Ok with the pixels of the codes, width * height of  *)
(* them, when the run counts of the colour codes sum to width * height     *)
(* (an end-of-line marker counts for no pixel); it returns an error of     *)
(* kind InvalidData, and no pixels, when the sum is another number.        *)
(***************************************************************************)
\* The codes of data from offset on, and whether all of them decode.
RECURSIVE CodesOf(_, _, _)
CodesOf(data, offset, codes) ==
    LET more(r) ==
            IF ~r.ok THEN [ok |-> FALSE, codes |-> codes]
            ELSE CodesOf(data, offset + r.pos, Append(codes, r.val))
    IN  IF offset >= Len(data) THEN [ok |-> TRUE, codes |-> codes]
        ELSE more(decode_image_data_code(data, offset))

RECURSIVE RunCountSum(_)
RunCountSum(codes) ==
    IF codes = <<>> THEN 0
    ELSE (IF Head(codes).kind = "Color" THEN Head(codes).count ELSE 0)
         + RunCountSum(Tail(codes))

\* The colour of the pixel at position k (from 1) of the runs of codes.
RECURSIVE PixelOfRuns(_, _)
PixelOfRuns(codes, k) ==
    LET n == IF Head(codes).kind = "Color" THEN Head(codes).count ELSE 0
    IN  IF k <= n THEN Head(codes).color ELSE PixelOfRuns(Tail(codes), k - n)

RleReturned == call.fn = "decode_rle_data" /\ call.ret # None

C12_RleLengthChecked ==
    RleReturned =>
        LET parsed == CodesOf(call.args[1], 0, <<>>)
            expected == call.args[2] * call.args[3]
            ret == call.ret[1]
        IN  parsed.ok =>
                IF RunCountSum(parsed.codes) = expected
                THEN /\ ret.ok
                     /\ Len(ret.val) = expected
                     /\ \A k \in 1..expected : ret.val[k] = PixelOfRuns(parsed.codes, k)
                ELSE /\ ~ret.ok
                     /\ ret.err = "InvalidData"
                     /\ ret.val = <<>>

\* A 2 x 1 image of one pixel, an end-of-line marker and one pixel is
\* returned whole.
C12_Witness ==
    /\ RleReturned
    /\ call.args = <<<<1, 0, 0, 2>>, 2, 1>>
    /\ call.ret[1].ok
    /\ call.ret[1].val = <<1, 2>>

(***************************************************************************)
(* C13.  decode_image_data_code maps the leading bytes v0, v1, v2, v3 of a *)
(* buffer to a code and the number of bytes of the code: v0 # 0 is one     *)
(* pixel of colour v0 (1 byte); v0 = 0 and v1 in 1..63 is v1 pixels of     *)
(* colour 0 (2); v0 = 0 and v1 = 0 is the end of a line (2); top bits 01   *)
(* of v1 is a run of colour 0 of the 14 bit number of v1 and v2 less one   *)
(* (3); top bits 10 is v1 & 0x3F pixels of colour v2 (3); top bits 11 is   *)
(* the 14 bit number of pixels of colour v3 (4); and the call fails when   *)
(* the buffer is shorter than the code that v0 and v1 select.  The run of  *)
(* top bits 01 is the number less one, and 0 when the number is 0.         *)
(***************************************************************************)
CodeReturned == call.fn = "decode_image_data_code" /\ call.ret # None

\* The number of bytes of the code that the leading bytes of buf select.
CodeLength(buf) ==
    IF Len(buf) = 0 THEN 1
    ELSE IF buf[1] # 0 THEN 1
    ELSE IF Len(buf) = 1 THEN 2
    ELSE IF buf[2] <= 63 THEN 2
    ELSE IF buf[2] < 192 THEN 3
    ELSE 4

\* The grammar, with LessOne the run length of the codes of top bits 01.
CodeGrammar(LessOne(_)) ==
    LET buf == call.args[1]
        ret == call.ret[1]
        v0 == buf[1]
        v1 == buf[2]
        v2 == buf[3]
        v3 == buf[4]
        number == (v1 % 64) * 256 + v2
        whole == Len(buf) >= CodeLength(buf)
        is(code, n) == ret.ok /\ ret.val = code /\ ret.pos = n
    IN  /\ ~whole => ~ret.ok
        /\ (whole /\ v0 # 0) => is(Color(v0, 1), 1)
        /\ (whole /\ v0 = 0 /\ v1 \in 1..63) => is(Color(0, v1), 2)
        /\ (whole /\ v0 = 0 /\ v1 = 0) => is(EndOfLine, 2)
        /\ (whole /\ v0 = 0 /\ v1 \in 64..127) => is(Color(0, LessOne(number)), 3)
        /\ (whole /\ v0 = 0 /\ v1 \in 128..191) => is(Color(v2, v1 % 64), 3)
        /\ (whole /\ v0 = 0 /\ v1 \in 192..255) => is(Color(v3, number), 4)

OneOffOrZero(n) == IF n = 0 THEN 0 ELSE n - 1
OneOff(n) == n - 1

C13_CodeGrammar == CodeReturned => CodeGrammar(OneOffOrZero)

\* The statement with the run of top bits 01 always the number less one.
C13_CodeGrammarExact == CodeReturned => CodeGrammar(OneOff)

\* 0x00 0x41 0x01 is a run of 256 pixels of colour 0, one less than 0x0101.
C13_Witness ==
    /\ CodeReturned
    /\ call.args = <<<<0, 65, 1>>>>
    /\ call.ret[1] = Ok(Color(0, 256), 3)

(***************************************************************************)
(* C14.  decode_segment fails with the kind InvalidData when the magic of  *)
(* a whole header is not 0x5047 or, the payload being there, the segment   *)
(* type is none of 0x14, 0x15, 0x16, 0x17, 0x80; and it fails with the     *)
(* kind UnexpectedEof exactly when the input ends before the 13 bytes of   *)
(* the header or before the segment_size bytes of the payload.             *)
(***************************************************************************)
SegmentReturned == call.fn = "decode_segment" /\ call.ret # None

C14_ErrorKindsDistinct ==
    SegmentReturned =>
        LET buf == call.args[1]
            ret == call.ret[1]
            whole_header == Len(buf) >= 13
            bad_magic == whole_header /\ buf[1] * 256 + buf[2] # 20551
            ends_early ==
                \/ ~whole_header
                \/ ~bad_magic /\ Len(buf) < 13 + buf[12] * 256 + buf[13]
            bad_type == /\ whole_header
                        /\ ~bad_magic
                        /\ ~ends_early
                        /\ buf[11] \notin {20, 21, 22, 23, 128}
        IN  /\ (bad_magic \/ bad_type) => (~ret.ok /\ ret.err = "InvalidData")
            /\ (~ret.ok /\ ret.err = "UnexpectedEof") <=> ends_early

(***************************************************************************)
(* C15.  decode_segment decodes the flag bytes bit for bit and refuses     *)
(* every other value with InvalidData.  Composition state: 0x00 Normal,    *)
(* 0x40 AcquisitionPoint, 0x80 EpochStart.  Palette update flag: 0x80      *)
(* true, 0x00 false.  Last-in-sequence flag: 0x80 First, 0x40 Last, 0xC0   *)
(* FirstAndLast.  Object cropped flag: 0x40 cropping present, read from    *)
(* four further 16 bit fields (the read fails when the payload does not    *)
(* hold them); 0x00 cropping absent, and no further field read.            *)
(***************************************************************************)
C15_FlagsBitExact ==
    SegmentReturned =>
        \A seg \in SegmentSamples, byte \in SegmentPatchBytes :
            LET enc == EncSegment(seg)
                ret == call.ret[1]
                given(at) == call.args[1] = WithByte(enc, at, byte)
                refused == ret = Err("InvalidData")
            IN  /\ (seg.type = "PCS" /\ given(13 + 7)) =>
                      IF byte = 0
                      THEN ret = Ok([seg EXCEPT !.composition_state = "Normal"], Len(enc))
                      ELSE IF byte = 64
                      THEN ret = Ok([seg EXCEPT !.composition_state = "AcquisitionPoint"],
                                    Len(enc))
                      ELSE IF byte = 128
                      THEN ret = Ok([seg EXCEPT !.composition_state = "EpochStart"],
                                    Len(enc))
                      ELSE refused
                /\ (seg.type = "PCS" /\ given(13 + 8)) =>
                      IF byte = 128
                      THEN ret = Ok([seg EXCEPT !.palette_update = TRUE], Len(enc))
                      ELSE IF byte = 0
                      THEN ret = Ok([seg EXCEPT !.palette_update = FALSE], Len(enc))
                      ELSE refused
                /\ (seg.type = "PCS" /\ given(13 + 11 + 3)) =>
                      IF byte = 0
                      THEN ret = Ok([seg EXCEPT !.composition_objects[1].cropping = None],
                                    Len(enc))
                      ELSE IF byte = 64
                      THEN IF seg.composition_objects[1].cropping # None
                           THEN ret = Ok(seg, Len(enc))
                           ELSE ret = Err("UnexpectedEof")
                      ELSE refused
                /\ (seg.type = "ODS" /\ given(13 + 3)) =>
                      IF byte = 128
                      THEN ret = Ok([seg EXCEPT !.last_in_sequence = "First"], Len(enc))
                      ELSE IF byte = 64
                      THEN ret = Ok([seg EXCEPT !.last_in_sequence = "Last"], Len(enc))
                      ELSE IF byte = 192
                      THEN ret = Ok([seg EXCEPT !.last_in_sequence = "FirstAndLast"],
                                    Len(enc))
                      ELSE refused

\* The PCS of the second set with the composition state byte 0x40 is
\* decoded as an acquisition point.
C15_Witness ==
    /\ SegmentReturned
    /\ call.args[1] = WithByte(EncSegment(BaseSegs[6]), 13 + 7, 64)
    /\ call.ret[1].ok
    /\ call.ret[1].val.type = "PCS"
    /\ call.ret[1].val.composition_state = "AcquisitionPoint"

(***************************************************************************)
(* C16.  A composition object with a cropping rectangle (x, y, w, h) on a  *)
(* finished object opens a record whose bitmap has width w and height h,   *)
(* holds w * h RGBA pixels, and has at (col, row) the pixel at             *)
(* (x + col, y + row) of the bitmap of the object, for all col < w and     *)
(* row < h.                                                                *)
(***************************************************************************)
\* The RGBA bytes of the pixel at (col, row) of a bitmap.
PixelAt(bitmap, col, row) ==
    [ch \in 1..4 |-> bitmap.pixels[(row * bitmap.width + col) * 4 + ch]]

AtCropped ==
    /\ AtComp
    /\ CurrentComp.cropping # None
    /\ CurrentComp.object_id \in DOMAIN objects
    /\ objects[CurrentComp.object_id].finished

C16_CroppedBitmapExact ==
    [][AtCropped =>
        LET c == CurrentComp.cropping[1]
            full == objects[CurrentComp.object_id].bitmap
        IN  /\ Len(subtitles') = Len(subtitles) + 1
            /\ LET emitted == subtitles'[Len(subtitles')].bitmap
               IN  /\ emitted.width = c.width
                   /\ emitted.height = c.height
                   /\ Len(emitted.pixels) = 4 * c.width * c.height
                   /\ \A col \in 0..(c.width - 1), row \in 0..(c.height - 1) :
                         /\ c.horizontal_position + col < full.width
                         /\ c.vertical_position + row < full.height
                         /\ PixelAt(emitted, col, row)
                              = PixelAt(full, c.horizontal_position + col,
                                        c.vertical_position + row)]_vars

(***************************************************************************)
(* C17.  subtitles_extract is total: whatever the bytes of the stream, it  *)
(* returns records or an error; no run ends in a failed assertion (the     *)
(* display width and height of every set compared with those of the first  *)
(* set) or in an access out of range (the rows sliced out of the bitmap of *)
(* a cropped object).                                                      *)
(***************************************************************************)
C17_NoPanic ==
    /\ result.kind # "Panic"
    /\ pc = "done" => result.kind \in {"Ok", "Err"}

(***************************************************************************)
(* C18.  subtitles_to_srt writes one block for each maximal interval over  *)
(* which the visible subtitles are the same and not none: every block      *)
(* begins before it ends, the blocks begin one after the other, two        *)
(* blocks over adjoining intervals differ in their text, and no block is   *)
(* written for an instant at which several events fall together.  Stated   *)
(* for the lists in which every subtitle begins before it ends.            *)
(***************************************************************************)
SrtReturned == call.fn = "subtitles_to_srt" /\ call.ret # None

\* A written timestamp in milliseconds; the one of Duration::MAX is later
\* than every other.
WrittenBefore(a, b) ==
    LET millis(d) == ((d.hours * 60 + d.minutes) * 60 + d.seconds) * 1000 + d.millis
        is_max(d) == d = srt_duration_display(DurationMax)
    IN  IF is_max(a) THEN FALSE
        ELSE IF is_max(b) THEN TRUE
        ELSE millis(a) < millis(b)

\* Every subtitle of the list begins before it ends.
WellRanged(subs) ==
    \A k \in 1..Len(subs) :
        /\ DurationLeq(subs[k].range.begin, subs[k].range.end)
        /\ subs[k].range.begin # subs[k].range.end

C18_OneBlockPerInterval ==
    (SrtReturned /\ WellRanged(call.args[1])) =>
        LET srt == call.ret[1]
        IN  /\ \A k \in 1..Len(srt) : WrittenBefore(srt[k].begin, srt[k].end)
            /\ \A k \in 1..(Len(srt) - 1) :
                  /\ WrittenBefore(srt[k].begin, srt[k + 1].begin)
                  /\ srt[k].end = srt[k + 1].begin => srt[k].text # srt[k + 1].text

(***************************************************************************)
(* C19.  subtitles_ocr returns the text subtitles in the order of the      *)
(* bitmap subtitles it was given, however the workers interleave: result   *)
(* i has the time range of input i.                                        *)
(***************************************************************************)
C19_OcrKeepsOrder ==
    ocr_pc = "done" =>
        /\ Len(text_subtitles) = Len(result.subtitles)
        /\ \A i \in 1..Len(text_subtitles) :
              text_subtitles[i].range = result.subtitles[i].range

(***************************************************************************)
(* C20.  clock_to_duration(t) is t div 90000 whole seconds and             *)
(* (t mod 90000) * (1000000000 div 90000) nanoseconds; the nanoseconds are *)
(* below one second and below 2^32 (the product of the two u32 does not    *)
(* overflow); and a later tick count gives a later duration.               *)
(***************************************************************************)
ClockReturned == call.fn = "clock_to_duration" /\ call.ret # None

C20_ClockToDuration ==
    ClockReturned =>
        LET t == call.args[1]
            d == call.ret[1]
        IN  /\ d.secs = t \div 90000
            /\ d.nanos = (t % 90000) * (1000000000 \div 90000)
            /\ d.nanos < 1000000000
            /\ d.nanos \div 65536 < 65536
            /\ \A u \in ClockTicks :
                  u < t => /\ DurationLeq(clock_to_duration(u), d)
                           /\ clock_to_duration(u) # d

\* The last tick of the second second: 1 s and 999978889 ns.
C20_Witness ==
    /\ ClockReturned
    /\ call.args = <<2 * 90000 - 1>>
    /\ call.ret[1] = Duration(1, 999978889)

(***************************************************************************)
(* C21.  In subtitles_viewer, whatever keys are pressed, the selected      *)
(* index is a valid index of the list (0 <= index < number of records)     *)
(* whenever a bitmap is fetched for display, for every list the viewer can *)
(* be started with: no turn of the loop ends in an access out of range,    *)
(* and the window shows the bitmap at the selected index.                  *)
(***************************************************************************)
C21_IndexValidAtFetch ==
    /\ view_pc # "panic"
    /\ window_buffer # None =>
          /\ curr_image \in 0..(Len(result.subtitles) - 1)
          /\ window_buffer[1].width = result.subtitles[curr_image + 1].bitmap.width

(***************************************************************************)
(* C22.  A successful decode_segment leaves the reader 13 + segment_size   *)
(* bytes after where it began, segment_size being the number in the last   *)
(* two bytes of the header, however many bytes of the payload the typed    *)
(* body parser used.                                                       *)
(***************************************************************************)
C22_ConsumesHeaderAndPayload ==
    (SegmentReturned /\ call.ret[1].ok) =>
        call.ret[1].pos = 13 + call.args[1][12] * 256 + call.args[1][13]

\* A PCS whose payload holds a composition object of 16 bytes and whose
\* number of composition objects is 0: the body parser uses 11 bytes of the
\* 27, the reader stands after all of them.
C22_Witness ==
    /\ SegmentReturned
    /\ call.args[1] = WithByte(EncSegment(BaseSegs[1]), 13 + 10, 0)
    /\ call.ret[1].ok
    /\ call.ret[1].val.type = "PCS"
    /\ call.ret[1].val.composition_objects = <<>>
    /\ call.ret[1].pos = 13 + 11 + 16

(***************************************************************************)
(* C23.  While a display set whose composition state is Normal or          *)
(* AcquisitionPoint is processed, every step leaves the palette table as   *)
(* it is at every id that no PDS of the set has, and the object map as it  *)
(* is at every id that no ODS of the set has (data, dimensions, finished   *)
(* flag and bitmap); no id is added but those; and the steps that process  *)
(* composition objects change neither map.                                 *)
(***************************************************************************)
\* A map after a step differs from the map before it at the ids alone.
OnlyAt(ids, map_before, map_after) ==
    /\ \A id \in (DOMAIN map_before) \ ids :
          id \in DOMAIN map_after /\ map_after[id] = map_before[id]
    /\ (DOMAIN map_after) \ (DOMAIN map_before) \subseteq ids

C23_OnlyOwnIdsChange ==
    [][(/\ pc \in {"set", "ods", "comp"}
        /\ ds_idx <= Len(display_sets)
        /\ ds.pcs.composition_state # "EpochStart")
       => /\ OnlyAt({ds.pds[n].palette_id : n \in 1..Len(ds.pds)}, palettes, palettes')
          /\ OnlyAt({ds.ods[n].object_id : n \in 1..Len(ds.ods)}, objects, objects')
          /\ pc = "comp" => (palettes' = palettes /\ objects' = objects)]_vars

\* The second set, Normal, defines palette 1 and object 2 and shows the
\* objects 1 and 2: palette 0 and object 1 are those of the first set.
C23_Witness ==
    /\ Returned
    /\ Len(display_sets) = 2
    /\ display_sets[2].pcs.composition_state = "Normal"
    /\ {display_sets[2].pds[n].palette_id : n \in 1..Len(display_sets[2].pds)} = {1}
    /\ {display_sets[2].ods[n].object_id : n \in 1..Len(display_sets[2].ods)} = {2}
    /\ DOMAIN palettes = {0, 1}
    /\ palettes[0] = display_sets[1].pds[1]
    /\ DOMAIN objects = {1, 2}
    /\ objects[1].data = display_sets[1].ods[1].data
    /\ opened_by = <<1, 2, 2>>

(***************************************************************************)
(* C24.  When an object is decoded, on a FirstAndLast fragment or on a     *)
(* Last fragment of an object that is not finished, the width and height   *)
(* used are those of the first fragment of the data decoded: the           *)
(* FirstAndLast fragment itself, or the latest First fragment of the id    *)
(* in the epoch (the Last fragment itself when there is none).  The step   *)
(* leaves the object with those dimensions and the bitmap decoded with     *)
(* them, or fails as that decoding fails.                                  *)
(***************************************************************************)
\* The ODS of the epoch of set i that come before the n-th ODS of set i.
OdsBefore(i, n) ==
    Flatten([m \in 1..(i - EpochStartOf(i)) |-> display_sets[EpochStartOf(i) + m - 1].ods])
    \o SubSeq(display_sets[i].ods, 1, n - 1)

\* The fragment that starts the data decoded at the n-th ODS of set i.
StartingFragment(i, n) ==
    LET ods == display_sets[i].ods[n]
        starts(o) == o.object_id = ods.object_id /\ o.last_in_sequence = "First"
        firsts == SelectSeq(OdsBefore(i, n), starts)
    IN  IF ods.last_in_sequence = "FirstAndLast" \/ firsts = <<>> THEN ods
        ELSE firsts[Len(firsts)]

C24_DimensionsOfFirstFragment ==
    [][(/\ AtOds
        /\ CurrentOds.last_in_sequence \in {"FirstAndLast", "Last"}
        /\ ~(/\ CurrentOds.last_in_sequence = "Last"
             /\ CurrentOds.object_id \in DOMAIN objects
             /\ objects[CurrentOds.object_id].finished))
       => LET id == CurrentOds.object_id
              start == StartingFragment(ds_idx, ods_idx)
              data == IF CurrentOds.last_in_sequence = "Last" /\ id \in DOMAIN objects
                      THEN objects[id].data \o CurrentOds.data
                      ELSE CurrentOds.data
          IN  \E decoded \in {bitmap_from_object_and_palette(
                                  Object(start.width, start.height, TRUE, data,
                                         BitmapDefault), palette)} :
                  IF decoded.ok
                  THEN /\ pc' = "ods"
                       /\ objects'[id].width = start.width
                       /\ objects'[id].height = start.height
                       /\ objects'[id].bitmap = decoded.val
                  ELSE /\ pc' = "done"
                       /\ result' = ResultErr(decoded.err)]_vars

(***************************************************************************)
(* C25.  The head of the loop body for a display set leaves, under every   *)
(* palette id p that a PDS of the set has, the palette of the last PDS of  *)
(* the set with id p: each of its 256 entries is the entry the payload of  *)
(* that PDS lists under the index, or the zero entry when it lists none,   *)
(* whatever the table held under p before.  Stated for the streams that    *)
(* are the bytes of whole display sets, whose payloads are known.          *)
(***************************************************************************)
\* The last PDS with palette id p of the described display set i.
LastPdsOf(i, p) ==
    LET has_id(seg) == seg.palette_id = p
        with_id == SelectSeq(InputGrouping.sets[i].pds, has_id)
    IN  with_id[Len(with_id)]

C25_PdsReplacesPalette ==
    [][(AtSet /\ Intact /\ InputGrouping.kind = "complete")
       => \A p \in {ds.pds[n].palette_id : n \in 1..Len(ds.pds)} :
              LET last == LastPdsOf(ds_idx, p)
              IN  /\ p \in DOMAIN palettes'
                  /\ palettes'[p].palette_version = last.palette_version
                  /\ \A idx \in 0..255 :
                        EntryAt(palettes'[p].entries, idx) =
                            IF idx \in DOMAIN last.entries THEN last.entries[idx]
                            ELSE ZeroEntry]_vars

\* The first set defines palette 0 with the entries 1, 2 and 3, the second,
\* of the same epoch, with other entries 1 and 2: entry 3 is zero after it.
C25_Witness ==
    /\ Returned
    /\ Intact
    /\ Len(display_sets) = 2
    /\ display_sets[2].pcs.composition_state = "Normal"
    /\ display_sets[1].pds = <<MkPDS(PtsAt(1), 0, 0, EntriesA)>>
    /\ display_sets[2].pds = <<MkPDS(PtsAt(2), 0, 1, EntriesB)>>
    /\ EntryAt(palettes[0].entries, 2) = EntriesB[2]
    /\ EntryAt(palettes[0].entries, 3) = ZeroEntry

(***************************************************************************)
(* C26.  The sequence of items that the iterator of decode_image_data      *)
(* yields over a byte slice is finite, also after an item that is an       *)
(* error: the item after an error is None, and the items that are not None *)
(* are no more than the bytes of the slice.                                *)
(***************************************************************************)
C26_IteratorFinite ==
    /\ \A k \in 1..(Len(yielded) - 1) :
          (yielded[k] # None /\ ~yielded[k][1].ok) => yielded[k + 1] = None
    /\ Cardinality({k \in 1..Len(yielded) : yielded[k] # None}) <= Len(decoder.buf)

(***************************************************************************)
(* C27.  When decode_display_sets returns Ok, nothing that decodes was     *)
(* dropped: no display set decodes at any offset of the stream from where  *)
(* the reader stopped, so that a stream with a malformed segment before a  *)
(* well-formed display set is not answered with the shortened list.        *)
(***************************************************************************)
\* The offsets from pos on at which the magic number stands: a display set
\* decodes at no other, its first header is refused.
MagicOffsetsFrom(pos) ==
    {p \in pos..(Len(pgs) - 2) : read_u16(pgs, p) = MAGIC_NUMBER}

C27_NothingDecodableDropped ==
    (pc # "decode" /\ decode_result = "Ok") =>
        \A p \in MagicOffsetsFrom(reader_pos) : ~decode_display_set(pgs, p).ok

(***************************************************************************)
(* C28.  Every record that subtitles_extract returns carries a bitmap      *)
(* whose pixel buffer holds 4 * width * height bytes, whether its          *)
(* composition object was cropped or not, whatever the cropping rectangle. *)
(***************************************************************************)
C28_BitmapBufferLength ==
    Returned =>
        \A k \in 1..Len(result.subtitles) :
            Len(result.subtitles[k].bitmap.pixels)
                = 4 * result.subtitles[k].bitmap.width * result.subtitles[k].bitmap.height

(***************************************************************************)
(* C29.  When no worker fails, subtitles_ocr returns under every           *)
(* interleaving of its workers, and what it returns is one text subtitle   *)
(* for each bitmap subtitle it was given: the results are the inputs in    *)
(* some order, each with the range of its input and the text read from     *)
(* its bitmap, none lost and none twice.                                   *)
(***************************************************************************)
\* The one-to-one assignments of n results to n inputs.
Bijections(n) == {f \in [1..n -> 1..n] : \A i, j \in 1..n : f[i] = f[j] => i = j}

OneTextPerBitmap ==
    /\ Len(text_subtitles) = Len(result.subtitles)
    /\ \E f \in Bijections(Len(result.subtitles)) :
          \A i \in 1..Len(text_subtitles) :
              text_subtitles[i] =
                  TextSubtitle(result.subtitles[f[i]].range,
                               tesseract_get_text(result.subtitles[f[i]].bitmap))

C29_OcrReturnsOneEach ==
    /\ <>(ocr_pc = "done")
    /\ [](ocr_pc = "done" => OneTextPerBitmap)

\* Three records and two workers: the run is over with the three texts,
\* the third before the first.
C29_Witness ==
    /\ ocr_pc = "done"
    /\ available_parallelism = 2
    /\ Len(result.subtitles) = 3
    /\ Len(text_subtitles) = 3
    /\ text_subtitles[1].range = result.subtitles[2].range
    /\ text_subtitles[2].range = result.subtitles[3].range
    /\ text_subtitles[3].range = result.subtitles[1].range

(***************************************************************************)
(* C30.  After decode_display_sets returned Ok: with no display set,       *)
(* subtitles_extract returns Ok with no record; with a first display set   *)
(* whose composition state is not EpochStart it returns an error and has   *)
(* processed no set (no palette, no object, no record); and it returns Ok  *)
(* with display sets only when the first one starts an epoch.              *)
(***************************************************************************)
C30_FirstSetStartsEpoch ==
    (pc \notin {"decode", "check"} /\ decode_result = "Ok") =>
        /\ display_sets = <<>> => (pc = "done" /\ result = ResultOk(<<>>))
        /\ (/\ display_sets # <<>>
            /\ display_sets[1].pcs.composition_state # "EpochStart")
           => /\ pc = "done"
              /\ result.kind = "Err"
              /\ ds_idx = 0
              /\ palettes = EmptyPalettes
              /\ objects = EmptyObjects
              /\ subtitles = <<>>
        /\ (Returned /\ display_sets # <<>>)
           => display_sets[1].pcs.composition_state = "EpochStart"

\* An acquisition point and then an epoch start: refused at the first set.
C30_Witness ==
    /\ pc = "done"
    /\ decode_result = "Ok"
    /\ Len(display_sets) = 2
    /\ display_sets[1].pcs.composition_state = "AcquisitionPoint"
    /\ display_sets[2].pcs.composition_state = "EpochStart"
    /\ result = ResultErr("display set 0 does not start an epoch")
    /\ ds_idx = 0

(***************************************************************************)
(* C31.  A Last fragment for an object id that the object map does not     *)
(* hold (no fragment of the id came before it in the epoch) is not         *)
(* refused: the step stores under that id an object with the width and     *)
(* height of the fragment, finished, whose data is the data of the         *)
(* fragment alone and whose bitmap is decoded from that data with the      *)
(* selected palette; every other object is kept; and the step does what it *)
(* does for the same fragment flagged FirstAndLast, the failure to decode  *)
(* the data included.                                                      *)
(***************************************************************************)
C31_LastAloneIsWhole ==
    [][(/\ AtOds
        /\ CurrentOds.last_in_sequence = "Last"
        /\ CurrentOds.object_id \notin DOMAIN objects)
       => LET id == CurrentOds.object_id
              bm == bitmap_from_object_and_palette(
                        Object(CurrentOds.width, CurrentOds.height, TRUE,
                               CurrentOds.data, BitmapDefault), palette)
              whole == apply_ods(objects, palette,
                           [CurrentOds EXCEPT !.last_in_sequence = "FirstAndLast"])
          IN  IF bm.ok
              THEN /\ pc' = "ods"
                   /\ ods_idx' = ods_idx + 1
                   /\ result' = result
                   /\ DOMAIN objects' = DOMAIN objects \cup {id}
                   /\ objects'[id] = Object(CurrentOds.width, CurrentOds.height,
                                            TRUE, CurrentOds.data, bm.val)
                   /\ \A other \in DOMAIN objects : objects'[other] = objects[other]
                   /\ whole.ok
                   /\ objects' = whole.val
              ELSE /\ pc' = "done"
                   /\ result' = ResultErr(bm.err)
                   /\ bm.err # "invalid ods segment"
                   /\ ~whole.ok
                   /\ whole.err = bm.err]_vars

\* The first set of the stream carried one Last fragment, 1 x 1, for
\* object 2: the object is finished with the byte of the fragment and a
\* bitmap of one pixel.
C31_Witness ==
    /\ pc = "ods"
    /\ ds_idx = 1
    /\ Len(ds.ods) = 1
    /\ ods_idx = 2
    /\ ds.ods[1].last_in_sequence = "Last"
    /\ ds.ods[1].object_id = 2
    /\ DOMAIN objects = {2}
    /\ objects[2].finished
    /\ objects[2].width = 1
    /\ objects[2].height = 1
    /\ objects[2].data = ds.ods[1].data
    /\ Len(objects[2].bitmap.pixels) = 4

=============================================================================
